---------------------------- MODULE Spec2Model ----------------------------
(***************************************************************************)
(* Model of the H1B job parser scripts: the keyword sponsorship classifier *)
(* (check_h1b_sponsorship of H1BJobParser and AlternativeH1BJobParser) and *)
(* the posting-date recency filter (H1BJobParser.is_within_24_hours).      *)
(*                                                                         *)
(* A Python str is a sequence of characters, each written as a string (an  *)
(* ASCII character as itself), so that substring tests, lower(), strip(),  *)
(* the regular expressions and strptime are computed character by          *)
(* character, as the interpreter computes them.                            *)
(***************************************************************************)
EXTENDS Integers, Sequences, FiniteSets, TLC

VARIABLES
    job_description,    \* argument of check_h1b_sponsorship
    h1b_info,           \* the dict returned by check_h1b_sponsorship
    cls_pc,             \* "start", or the class whose classifier has returned
    posting_date_text,  \* argument of is_within_24_hours
    current_time,       \* what datetime.now() answers during the call
    within_24_hours,    \* the value returned by is_within_24_hours
    date_pc,            \* "start" | "done" | "again" (after a repeated call)
    earlier_result,     \* what the call before the repeated one returned
    job_data,           \* the JobRecord a script has just appended to its list
    rec_pc,             \* "start", or the function that built job_data
    jobs,               \* argument of save_results
    csv_file,           \* the CSV file save_results writes, as csv reads it
    json_file,          \* the JSON file save_results writes, as json reads it
    save_pc,            \* "start", or the class whose save_results returned
    scraper,            \* the page loop running: scrape_indeed, ...
    max_pages,          \* its parameter max_pages
    page,               \* the loop variable of "for page in range(max_pages)"
    gets,               \* the HTTP GETs issued so far, each with its answer
    scraped,            \* the list jobs of the page loop
    scrape_pc,          \* "loop" | "returned"
    query,              \* arguments of search_h1b_employers
    site,               \* what MyVisaJobs answers to its GET
    employers,          \* the list search_h1b_employers returns
    emp_pc,             \* "start" | "returned"
    script,             \* the script whose main runs
    weather,            \* the answer every HTTP request of the run meets
    step,               \* the searches main has made
    all_jobs,           \* the list all_jobs of main
    written,            \* the records main had save_results write
    main_pc,            \* "running" | "completed"
    caller,             \* the script whose main runs, for its sleeps and requests
    calls,              \* the time.sleep calls and the requests made so far, in order
    position,           \* the loop main is in: its phase, its search and its page
    calls_pc,           \* "running" | "completed"
    collected,          \* the list all_jobs main has collected, before the duplicate removal
    unique,             \* the list unique_jobs after the duplicate removal
    dedup_pc,           \* "start", or the script whose main removed the duplicates
    card_source,        \* the page loop whose cards are read: scrape_indeed, ...
    site_cards,         \* the job cards the site holds for the query, over its pages
    page_no,            \* the pages opened so far
    cards_left,         \* the cards of the open page not yet handled
    handled,            \* the cards handled so far, in order
    loop_jobs,          \* the list jobs of the page loop
    cards_pc,           \* "cards" | "returned"
    catalog,            \* the attribute h1b_sponsors of HonestH1BFinder
    sponsors,           \* the list get_h1b_sponsors returns
    sponsors_pc,        \* "start" | "returned"
    rss_feeds,          \* what feedparser.parse answers for each url of rss_urls: its entries
    rss_index,          \* the index of the feed the loop is at
    rss_jobs,           \* the list "jobs" of search_rss_feeds
    rss_pc,             \* "fetch" | "returned"
    report_employers,   \* the h1b_count of each employer create_job_entries is given
    report_jobs,        \* the jobs create_job_entries returns, generate_report is given
    large_companies,    \* the list large_companies of generate_report
    medium_companies,   \* the list medium_companies of generate_report
    small_companies,    \* the list small_companies of generate_report
    report_pc,          \* "start" | "created" | "reported"
    career_page,        \* what the career page of an open site answers
    open_sites,         \* the first open_sites companies answer career_page, the others 403
    company_at,         \* the index of the company the loop of main is at
    company_jobs,       \* the list search_company_jobs returned last
    leads,              \* the list all_jobs of main
    careers_pc          \* "searching" | "collected" | "saved" | "no_leads"

vars == <<job_description, h1b_info, cls_pc, posting_date_text,
          current_time, within_24_hours, date_pc, earlier_result, job_data,
          rec_pc, jobs, csv_file, json_file, save_pc, scraper, max_pages,
          page, gets, scraped, scrape_pc, query, site, employers, emp_pc,
          script, weather, step, all_jobs, written, main_pc, caller, calls,
          position, calls_pc, collected, unique, dedup_pc, card_source,
          site_cards, page_no, cards_left, handled, loop_jobs, cards_pc,
          catalog, sponsors, sponsors_pc, rss_feeds, rss_index, rss_jobs,
          rss_pc, report_employers, report_jobs, large_companies,
          medium_companies, small_companies, report_pc, career_page,
          open_sites, company_at, company_jobs, leads, careers_pc>>

cls_vars == <<job_description, h1b_info, cls_pc>>
date_vars == <<posting_date_text, current_time, within_24_hours, date_pc,
               earlier_result>>
rec_vars == <<job_data, rec_pc>>
save_vars == <<jobs, csv_file, json_file, save_pc>>
scrape_vars == <<scraper, max_pages, page, gets, scraped, scrape_pc>>
emp_vars == <<query, site, employers, emp_pc>>
main_vars == <<script, weather, step, all_jobs, written, main_pc>>
calls_vars == <<caller, calls, position, calls_pc>>
dedup_vars == <<collected, unique, dedup_pc>>
cards_vars == <<card_source, site_cards, page_no, cards_left, handled,
                loop_jobs, cards_pc>>
sponsors_vars == <<catalog, sponsors, sponsors_pc>>
rss_vars == <<rss_feeds, rss_index, rss_jobs, rss_pc>>
report_vars == <<report_employers, report_jobs, large_companies,
                 medium_companies, small_companies, report_pc>>
careers_vars == <<career_page, open_sites, company_at, company_jobs, leads,
                  careers_pc>>

\* the variables outside each part of the program
outside_cls == <<date_vars, rec_vars, save_vars, scrape_vars, emp_vars,
                 main_vars, calls_vars, dedup_vars, cards_vars,
                 sponsors_vars, rss_vars, report_vars, careers_vars>>
outside_date == <<cls_vars, rec_vars, save_vars, scrape_vars, emp_vars,
                  main_vars, calls_vars, dedup_vars, cards_vars,
                  sponsors_vars, rss_vars, report_vars, careers_vars>>
outside_rec == <<cls_vars, date_vars, save_vars, scrape_vars, emp_vars,
                 main_vars, calls_vars, dedup_vars, cards_vars,
                 sponsors_vars, rss_vars, report_vars, careers_vars>>
outside_save == <<cls_vars, date_vars, rec_vars, scrape_vars, emp_vars,
                  main_vars, calls_vars, dedup_vars, cards_vars,
                  sponsors_vars, rss_vars, report_vars, careers_vars>>
outside_scrape == <<cls_vars, date_vars, rec_vars, save_vars, emp_vars,
                    main_vars, calls_vars, dedup_vars, cards_vars,
                    sponsors_vars, rss_vars, report_vars, careers_vars>>
outside_emp == <<cls_vars, date_vars, rec_vars, save_vars, scrape_vars,
                 main_vars, calls_vars, dedup_vars, cards_vars,
                 sponsors_vars, rss_vars, report_vars, careers_vars>>
outside_main == <<cls_vars, date_vars, rec_vars, save_vars, scrape_vars,
                  emp_vars, calls_vars, dedup_vars, cards_vars,
                  sponsors_vars, rss_vars, report_vars, careers_vars>>
outside_calls == <<cls_vars, date_vars, rec_vars, save_vars, scrape_vars,
                   emp_vars, main_vars, dedup_vars, cards_vars,
                   sponsors_vars, rss_vars, report_vars, careers_vars>>
outside_dedup == <<cls_vars, date_vars, rec_vars, save_vars, scrape_vars,
                   emp_vars, main_vars, calls_vars, cards_vars,
                   sponsors_vars, rss_vars, report_vars, careers_vars>>
outside_cards == <<cls_vars, date_vars, rec_vars, save_vars, scrape_vars,
                   emp_vars, main_vars, calls_vars, dedup_vars,
                   sponsors_vars, rss_vars, report_vars, careers_vars>>
outside_sponsors == <<cls_vars, date_vars, rec_vars, save_vars, scrape_vars,
                      emp_vars, main_vars, calls_vars, dedup_vars,
                      cards_vars, rss_vars, report_vars, careers_vars>>
outside_rss == <<cls_vars, date_vars, rec_vars, save_vars, scrape_vars,
                 emp_vars, main_vars, calls_vars, dedup_vars, cards_vars,
                 sponsors_vars, report_vars, careers_vars>>
outside_report == <<cls_vars, date_vars, rec_vars, save_vars, scrape_vars,
                    emp_vars, main_vars, calls_vars, dedup_vars, cards_vars,
                    sponsors_vars, rss_vars, careers_vars>>
outside_careers == <<cls_vars, date_vars, rec_vars, save_vars, scrape_vars,
                     emp_vars, main_vars, calls_vars, dedup_vars,
                     cards_vars, sponsors_vars, rss_vars, report_vars>>

---------------------------------------------------------------------------
(* Python str primitives *)

UpperAlpha == <<"A","B","C","D","E","F","G","H","I","J","K","L","M","N","O","P","Q","R","S","T","U","V","W","X","Y","Z">>  \* 'ABCDEFGHIJKLMNOPQRSTUVWXYZ'
LowerAlpha == <<"a","b","c","d","e","f","g","h","i","j","k","l","m","n","o","p","q","r","s","t","u","v","w","x","y","z">>  \* 'abcdefghijklmnopqrstuvwxyz'
Digits == <<"0","1","2","3","4","5","6","7","8","9">>  \* '0123456789'
Whitespace == {" ", "\t", "\n"}

IndexOf(c, alphabet) == CHOOSE i \in DOMAIN alphabet : alphabet[i] = c
IsIn(c, alphabet) == \E i \in DOMAIN alphabet : alphabet[i] = c

\* LATIN SMALL LETTER DOTLESS I, a letter outside ASCII: a lower-case letter
\* whose upper case is "I"
DotlessI == "U+0131"

\* the characters texts are made of
Chars == {UpperAlpha[i] : i \in DOMAIN UpperAlpha}
         \cup {LowerAlpha[i] : i \in DOMAIN LowerAlpha}
         \cup {Digits[i] : i \in DOMAIN Digits}
         \cup Whitespace \cup {"-", "/", ",", "+", DotlessI}
         \cup {".", ":", "(", ")", "'", "\"", "[", "]", "$", "%", "?", "=",
               "&", "_", "~", "U+2022"}

\* the lower case and the upper case of each character
LowerOf == [c \in Chars |->
              IF IsIn(c, UpperAlpha) THEN LowerAlpha[IndexOf(c, UpperAlpha)] ELSE c]
UpperOf == [c \in Chars |->
              IF IsIn(c, LowerAlpha) THEN UpperAlpha[IndexOf(c, LowerAlpha)]
              ELSE IF c = DotlessI THEN "I" ELSE c]

lower_char(c) == LowerOf[c]
upper_char(c) == UpperOf[c]

\* str.lower()
lower(text) == [i \in 1..Len(text) |-> lower_char(text[i])]
\* str.upper()
upper(text) == [i \in 1..Len(text) |-> upper_char(text[i])]

\* keyword in text
MatchesAt(keyword, text, i) ==
    \A j \in 1..Len(keyword) : text[i + j - 1] = keyword[j]
In(keyword, text) ==
    \E i \in 1..(Len(text) - Len(keyword) + 1) : MatchesAt(keyword, text, i)

\* any(keyword in text for keyword in keywords)
AnyIn(keywords, text) == \E k \in DOMAIN keywords : In(keywords[k], text)

\* x in a list
Member(x, list) == \E i \in DOMAIN list : list[i] = x

---------------------------------------------------------------------------
(* 4.1 Keyword sponsorship classifier *)

\* h1b_keywords with 'sponsorship' for 'visa sponsorship'
h1b_keywords_sponsorship == <<
    <<"h","1","b">>,  \* 'h1b'
    <<"h","-","1","b">>,  \* 'h-1b'
    <<"s","p","o","n","s","o","r","s","h","i","p">>,  \* 'sponsorship'
    <<"w","o","r","k"," ","a","u","t","h","o","r","i","z","a","t","i","o","n">>,  \* 'work authorization'
    <<"s","p","o","n","s","o","r"," ","v","i","s","a">>,  \* 'sponsor visa'
    <<"e","l","i","g","i","b","l","e"," ","t","o"," ","w","o","r","k">>,  \* 'eligible to work'
    <<"v","i","s","a"," ","s","p","o","n","s","o","r">>,  \* 'visa sponsor'
    <<"i","m","m","i","g","r","a","t","i","o","n"," ","s","p","o","n","s","o","r">>,  \* 'immigration sponsor'
    <<"w","o","r","k"," ","v","i","s","a">>,  \* 'work visa'
    <<"e","m","p","l","o","y","m","e","n","t"," ","a","u","t","h","o","r","i","z","a","t","i","o","n">>,  \* 'employment authorization'
    <<"o","p","t">>,  \* 'opt'
    <<"c","p","t">>,  \* 'cpt'
    <<"f","1">>,  \* 'f1'
    <<"g","r","e","e","n"," ","c","a","r","d">> >>  \* 'green card'

\* H1BJobParser.__init__
h1b_keywords == <<
    <<"h","1","b">>,  \* 'h1b'
    <<"h","-","1","b">>,  \* 'h-1b'
    <<"v","i","s","a"," ","s","p","o","n","s","o","r","s","h","i","p">>,  \* 'visa sponsorship'
    <<"w","o","r","k"," ","a","u","t","h","o","r","i","z","a","t","i","o","n">>,  \* 'work authorization'
    <<"s","p","o","n","s","o","r"," ","v","i","s","a">>,  \* 'sponsor visa'
    <<"e","l","i","g","i","b","l","e"," ","t","o"," ","w","o","r","k">>,  \* 'eligible to work'
    <<"v","i","s","a"," ","s","p","o","n","s","o","r">>,  \* 'visa sponsor'
    <<"i","m","m","i","g","r","a","t","i","o","n"," ","s","p","o","n","s","o","r">>,  \* 'immigration sponsor'
    <<"w","o","r","k"," ","v","i","s","a">>,  \* 'work visa'
    <<"e","m","p","l","o","y","m","e","n","t"," ","a","u","t","h","o","r","i","z","a","t","i","o","n">>,  \* 'employment authorization'
    <<"o","p","t">>,  \* 'opt'
    <<"c","p","t">>,  \* 'cpt'
    <<"f","1">>,  \* 'f1'
    <<"g","r","e","e","n"," ","c","a","r","d">> >>  \* 'green card'

no_sponsorship_keywords == <<
    <<"n","o"," ","s","p","o","n","s","o","r","s","h","i","p">>,  \* 'no sponsorship'
    <<"n","o"," ","v","i","s","a"," ","s","p","o","n","s","o","r","s","h","i","p">>,  \* 'no visa sponsorship'
    <<"m","u","s","t"," ","b","e"," ","a","u","t","h","o","r","i","z","e","d"," ","t","o"," ","w","o","r","k">>,  \* 'must be authorized to work'
    <<"u","s"," ","c","i","t","i","z","e","n">>,  \* 'us citizen'
    <<"p","e","r","m","a","n","e","n","t"," ","r","e","s","i","d","e","n","t">>,  \* 'permanent resident'
    <<"g","r","e","e","n"," ","c","a","r","d"," ","r","e","q","u","i","r","e","d">>,  \* 'green card required'
    <<"n","o"," ","h","1","b">>,  \* 'no h1b'
    <<"n","o"," ","v","i","s","a"," ","s","u","p","p","o","r","t">>,  \* 'no visa support'
    <<"a","u","t","h","o","r","i","z","e","d"," ","t","o"," ","w","o","r","k"," ","w","i","t","h","o","u","t"," ","s","p","o","n","s","o","r","s","h","i","p">> >>  \* 'authorized to work without sponsorship'

\* AlternativeH1BJobParser.__init__ and its check_h1b_sponsorship
alt_h1b_keywords == <<
    <<"h","1","b">>,  \* 'h1b'
    <<"h","-","1","b">>,  \* 'h-1b'
    <<"v","i","s","a"," ","s","p","o","n","s","o","r","s","h","i","p">>,  \* 'visa sponsorship'
    <<"w","o","r","k"," ","a","u","t","h","o","r","i","z","a","t","i","o","n">>,  \* 'work authorization'
    <<"s","p","o","n","s","o","r"," ","v","i","s","a">>,  \* 'sponsor visa'
    <<"i","m","m","i","g","r","a","t","i","o","n"," ","s","p","o","n","s","o","r">>,  \* 'immigration sponsor'
    <<"w","o","r","k"," ","v","i","s","a">>,  \* 'work visa'
    <<"e","m","p","l","o","y","m","e","n","t"," ","a","u","t","h","o","r","i","z","a","t","i","o","n">>,  \* 'employment authorization'
    <<"o","p","t">>,  \* 'opt'
    <<"c","p","t">>,  \* 'cpt'
    <<"g","r","e","e","n"," ","c","a","r","d">>,  \* 'green card'
    <<"v","i","s","a"," ","s","u","p","p","o","r","t">> >>  \* 'visa support'

alt_no_sponsorship_keywords == <<
    <<"n","o"," ","s","p","o","n","s","o","r","s","h","i","p">>,  \* 'no sponsorship'
    <<"n","o"," ","v","i","s","a"," ","s","p","o","n","s","o","r","s","h","i","p">>,  \* 'no visa sponsorship'
    <<"m","u","s","t"," ","b","e"," ","a","u","t","h","o","r","i","z","e","d"," ","t","o"," ","w","o","r","k">>,  \* 'must be authorized to work'
    <<"u","s"," ","c","i","t","i","z","e","n">>,  \* 'us citizen'
    <<"p","e","r","m","a","n","e","n","t"," ","r","e","s","i","d","e","n","t">>,  \* 'permanent resident'
    <<"n","o"," ","h","1","b">>,  \* 'no h1b'
    <<"a","u","t","h","o","r","i","z","e","d"," ","t","o"," ","w","o","r","k"," ","w","i","t","h","o","u","t"," ","s","p","o","n","s","o","r","s","h","i","p">> >>  \* 'authorized to work without sponsorship'

high_confidence_keywords == <<
    <<"h","1","b">>,  \* 'h1b'
    <<"h","-","1","b">>,  \* 'h-1b'
    <<"v","i","s","a"," ","s","p","o","n","s","o","r","s","h","i","p">>,  \* 'visa sponsorship'
    <<"s","p","o","n","s","o","r"," ","v","i","s","a">> >>  \* 'sponsor visa'

NoSponsorship == [sponsors_h1b |-> "False", confidence |-> "high", keywords_found |-> <<>>]
UnknownSponsorship == [sponsors_h1b |-> "None", confidence |-> "unknown", keywords_found |-> <<>>]

\* [keyword for keyword in keywords if keyword in text]
FoundKeywords(keywords, text) == SelectSeq(keywords, LAMBDA keyword : In(keyword, text))

\* Confidence with all() written for any()
Confidence_all(found_keywords) ==
    IF \A i \in DOMAIN high_confidence_keywords :
           Member(high_confidence_keywords[i], found_keywords)
    THEN "high" ELSE "medium"

\* "high" if any(kw in found_keywords for kw in high_confidence_keywords) else "medium"
Confidence(found_keywords) ==
    IF \E i \in DOMAIN high_confidence_keywords :
           Member(high_confidence_keywords[i], found_keywords)
    THEN "high" ELSE "medium"

\* Classify with the positive keywords looked at before the no-sponsorship list
Classify_positive_first(text, negative, positive) ==
    LET found_keywords == FoundKeywords(positive, text) IN
    IF found_keywords # <<>>
    THEN [sponsors_h1b |-> "True",
          confidence |-> Confidence(found_keywords),
          keywords_found |-> found_keywords]
    ELSE IF AnyIn(negative, text) THEN NoSponsorship ELSE UnknownSponsorship

\* Classify with the final return answering False for None
Classify_default_false(text, negative, positive) ==
    IF AnyIn(negative, text)
    THEN NoSponsorship
    ELSE LET found_keywords == FoundKeywords(positive, text) IN
         IF found_keywords # <<>>
         THEN [sponsors_h1b |-> "True",
               confidence |-> Confidence(found_keywords),
               keywords_found |-> found_keywords]
         ELSE NoSponsorship

\* the body shared by the two classes, over the lists of each
Classify(text, negative, positive) ==
    IF AnyIn(negative, text)
    THEN NoSponsorship
    ELSE LET found_keywords == FoundKeywords(positive, text) IN
         IF found_keywords # <<>>
         THEN [sponsors_h1b |-> "True",
               confidence |-> Confidence(found_keywords),
               keywords_found |-> found_keywords]
         ELSE UnknownSponsorship

\* check_h1b_sponsorship without the call of lower()
check_h1b_sponsorship_no_lower(description) ==
    Classify(description, no_sponsorship_keywords, h1b_keywords)

\* H1BJobParser.check_h1b_sponsorship
check_h1b_sponsorship(description) ==
    Classify(lower(description), no_sponsorship_keywords, h1b_keywords)

\* AlternativeH1BJobParser.check_h1b_sponsorship
alt_check_h1b_sponsorship(description) ==
    Classify(lower(description), alt_no_sponsorship_keywords, alt_h1b_keywords)

---------------------------------------------------------------------------
(* 4.2 Relative-date recency filter: Python helpers *)

\* str.strip()
strip(text) ==
    LET solid == {i \in DOMAIN text : text[i] \notin Whitespace} IN
    IF solid = {} THEN <<>>
    ELSE SubSeq(text, CHOOSE i \in solid : \A j \in solid : i <= j,
                      CHOOSE i \in solid : \A j \in solid : j <= i)

IsDigit(c) == IsIn(c, Digits)
AllDigits(text) == \A i \in DOMAIN text : IsDigit(text[i])

\* int() of a string of decimal digits
RECURSIVE int(_)
int(digits) ==
    IF digits = <<>> THEN 0
    ELSE 10 * int(SubSeq(digits, 1, Len(digits) - 1))
         + (IndexOf(digits[Len(digits)], Digits) - 1)

\* the text int() reads after the sign
Unsigned(text) ==
    IF text # <<>> /\ text[1] \in {"+", "-"} THEN Tail(text) ELSE text

\* int(text) does not raise ValueError: a sign at most, then digits, single
\* underscores between digits allowed
int_accepts(text) ==
    LET digits == Unsigned(strip(text)) IN
    /\ digits # <<>>
    /\ \A i \in DOMAIN digits : IsDigit(digits[i]) \/ digits[i] = "_"
    /\ IsDigit(digits[1]) /\ IsDigit(digits[Len(digits)])
    /\ \A i \in 1..(Len(digits) - 1) : ~ (digits[i] = "_" /\ digits[i + 1] = "_")

\* int(text) where it does not raise
int_value(text) ==
    LET stripped == strip(text)
        magnitude == int(SelectSeq(Unsigned(stripped), IsDigit))
    IN  IF stripped[1] = "-" THEN 0 - magnitude ELSE magnitude

\* keyword occurs in text at position i, and fits
LiteralAt(keyword, text, i) ==
    /\ i + Len(keyword) - 1 <= Len(text)
    /\ MatchesAt(keyword, text, i)

\* \s* from position i: the position of the first character that is not whitespace
RECURSIVE SkipSpace(_, _)
SkipSpace(text, i) ==
    IF i <= Len(text) /\ text[i] \in Whitespace THEN SkipSpace(text, i + 1) ELSE i

\* \d+ from position i: the position after the run of digits
RECURSIVE SkipDigits(_, _)
SkipDigits(text, i) ==
    IF i <= Len(text) /\ IsDigit(text[i]) THEN SkipDigits(text, i + 1) ELSE i

\* \s*<unit>s?\s*ago from position i
UnitAgoAt(text, i, unit) ==
    LET u == SkipSpace(text, i)
        s == u + Len(unit)
        a == SkipSpace(text, IF s <= Len(text) /\ text[s] = "s" THEN s + 1 ELSE s)
    IN  LiteralAt(unit, text, u) /\ LiteralAt(<<"a","g","o">>, text, a)

\* (\d+)\s*<unit>s?\s*ago matches with its first character at position i
NumberAgoAt(text, i, unit) ==
    /\ IsDigit(text[i])
    /\ UnitAgoAt(text, SkipDigits(text, i), unit)

NoMatch == -1

\* re.search(r'(\d+)\s*<unit>s?\s*ago', text): int(group(1)) of the leftmost
\* match, NoMatch when there is none
re_search_number(text, unit) ==
    LET starts == {i \in DOMAIN text : NumberAgoAt(text, i, unit)} IN
    IF starts = {} THEN NoMatch
    ELSE LET i == CHOOSE m \in starts : \A n \in starts : m <= n
         IN  int(SubSeq(text, i, SkipDigits(text, i) - 1))

---------------------------------------------------------------------------
(* datetime *)

IsLeap(year) == (year % 4 = 0) /\ ((year % 100 # 0) \/ (year % 400 = 0))

DaysInMonth(year, month) ==
    IF month = 2 THEN (IF IsLeap(year) THEN 29 ELSE 28)
    ELSE IF month \in {4, 6, 9, 11} THEN 30 ELSE 31

RECURSIVE DaysBeforeMonth(_, _)
DaysBeforeMonth(year, month) ==
    IF month = 1 THEN 0
    ELSE DaysBeforeMonth(year, month - 1) + DaysInMonth(year, month - 1)

DaysBeforeYear(year) ==
    LET y == year - 1 IN y * 365 + (y \div 4) - (y \div 100) + (y \div 400)

\* date.toordinal()
toordinal(date) ==
    DaysBeforeYear(date.year) + DaysBeforeMonth(date.year, date.month) + date.day

\* current_time - parsed_date, as timedelta keeps it: days, and seconds
\* within the day; parsed_date is a midnight
timedelta(now, parsed_date) ==
    [days |-> toordinal(now) - toordinal(parsed_date), seconds |-> now.second]

\* time_diff.total_seconds() <= limit, that is
\* days * 86400 + seconds <= limit with 0 <= seconds < 86400
total_seconds_le(time_diff, limit) ==
    \/ time_diff.days < limit \div 86400
    \/ time_diff.days = limit \div 86400 /\ time_diff.seconds <= limit % 86400

MonthAbbr == <<
    <<"j","a","n">>,  \* 'jan'
    <<"f","e","b">>,  \* 'feb'
    <<"m","a","r">>,  \* 'mar'
    <<"a","p","r">>,  \* 'apr'
    <<"m","a","y">>,  \* 'may'
    <<"j","u","n">>,  \* 'jun'
    <<"j","u","l">>,  \* 'jul'
    <<"a","u","g">>,  \* 'aug'
    <<"s","e","p">>,  \* 'sep'
    <<"o","c","t">>,  \* 'oct'
    <<"n","o","v">>,  \* 'nov'
    <<"d","e","c">> >>  \* 'dec'
MonthName == <<
    <<"j","a","n","u","a","r","y">>,  \* 'january'
    <<"f","e","b","r","u","a","r","y">>,  \* 'february'
    <<"m","a","r","c","h">>,  \* 'march'
    <<"a","p","r","i","l">>,  \* 'april'
    <<"m","a","y">>,  \* 'may'
    <<"j","u","n","e">>,  \* 'june'
    <<"j","u","l","y">>,  \* 'july'
    <<"a","u","g","u","s","t">>,  \* 'august'
    <<"s","e","p","t","e","m","b","e","r">>,  \* 'september'
    <<"o","c","t","o","b","e","r">>,  \* 'october'
    <<"n","o","v","e","m","b","e","r">>,  \* 'november'
    <<"d","e","c","e","m","b","e","r">> >>  \* 'december'

NoDate == [year |-> 0, month |-> 0, day |-> 0]

\* the directive %m: 1[0-2]|0[1-9]|[1-9]
IsMonthField(f) == Len(f) \in {1, 2} /\ AllDigits(f) /\ int(f) \in 1..12
\* the directive %d: 3[01]|[12]\d|0[1-9]|[1-9]| [1-9]
IsDayField(f) ==
    \/ Len(f) \in {1, 2} /\ AllDigits(f) /\ int(f) \in 1..31
    \/ Len(f) = 2 /\ f[1] = " " /\ IsDigit(f[2]) /\ f[2] # "0"
DayOf(f) == IF f[1] = " " THEN int(<<f[2]>>) ELSE int(f)
\* the directive %Y: \d\d\d\d
IsYearField(f) == Len(f) = 4 /\ AllDigits(f)

\* datetime(year, month, day) raises ValueError unless the date exists
MakeDate(year, month, day) ==
    IF year >= 1 /\ day <= DaysInMonth(year, month)
    THEN [year |-> year, month |-> month, day |-> day]
    ELSE NoDate

\* the three fields of a text with exactly two separators, <<>> otherwise
Fields(text, sep) ==
    LET at == {i \in DOMAIN text : text[i] = sep} IN
    IF Cardinality(at) # 2 THEN <<>>
    ELSE LET p == CHOOSE i \in at : \A j \in at : i <= j
             q == CHOOSE i \in at : \A j \in at : j <= i
         IN  << SubSeq(text, 1, p - 1), SubSeq(text, p + 1, q - 1),
                SubSeq(text, q + 1, Len(text)) >>

\* '%b %d' and '%B %d': a month name, \s+, the day; the year defaults to 1900
NamedDate(text, names) ==
    LET hits == {m \in DOMAIN names :
                    /\ LiteralAt(names[m], text, 1)
                    /\ Len(names[m]) < Len(text)
                    /\ text[Len(names[m]) + 1] \in Whitespace
                    /\ LET d == SubSeq(text, SkipSpace(text, Len(names[m]) + 1), Len(text))
                       IN  d # <<>> /\ IsDayField(d)}
    IN  IF hits = {} THEN NoDate
        ELSE LET m == CHOOSE x \in hits : TRUE
             IN  MakeDate(1900, m, int(SubSeq(text, SkipSpace(text, Len(names[m]) + 1), Len(text))))

\* datetime.strptime(text, pattern); NoDate stands for ValueError
strptime(text, pattern) ==
    CASE pattern = "%m/%d/%Y" ->
           LET f == Fields(text, "/") IN
           IF f # <<>> /\ IsMonthField(f[1]) /\ IsDayField(f[2]) /\ IsYearField(f[3])
           THEN MakeDate(int(f[3]), int(f[1]), DayOf(f[2])) ELSE NoDate
      [] pattern = "%Y-%m-%d" ->
           LET f == Fields(text, "-") IN
           IF f # <<>> /\ IsYearField(f[1]) /\ IsMonthField(f[2]) /\ IsDayField(f[3])
           THEN MakeDate(int(f[1]), int(f[2]), DayOf(f[3])) ELSE NoDate
      [] pattern = "%b %d" -> NamedDate(text, MonthAbbr)
      [] pattern = "%B %d" -> NamedDate(text, MonthName)

date_patterns == << "%m/%d/%Y", "%Y-%m-%d", "%b %d", "%B %d" >>

\* the loop over date_patterns from pattern k on: the date of the first
\* pattern that parses, NoDate when none does
RECURSIVE parse_first(_, _)
parse_first(text, k) ==
    IF k > Len(date_patterns) THEN NoDate
    ELSE LET parsed_date == strptime(text, date_patterns[k]) IN
         IF parsed_date = NoDate THEN parse_first(text, k + 1) ELSE parsed_date

\* if parsed_date.year == 1900: parsed_date.replace(year=current_time.year)
with_current_year(parsed_date, now) ==
    IF parsed_date.year = 1900 THEN [parsed_date EXCEPT !.year = now.year]
    ELSE parsed_date

\* absolute_date with the final return answering True
absolute_date_default_true(text, now) ==
    LET parsed_date == parse_first(text, 1) IN
    IF parsed_date = NoDate THEN TRUE
    ELSE total_seconds_le(timedelta(now, with_current_year(parsed_date, now)), 24 * 3600)

\* the try block: the comparison of the first date that parses with the
\* current time, and the final return False
absolute_date(text, now) ==
    LET parsed_date == parse_first(text, 1) IN
    IF parsed_date = NoDate THEN FALSE
    ELSE total_seconds_le(timedelta(now, with_current_year(parsed_date, now)), 24 * 3600)

\* the keyword lists of the branches of is_within_24_hours
recent_phrases == <<
    <<"t","o","d","a","y">>,  \* 'today'
    <<"j","u","s","t"," ","p","o","s","t","e","d">>,  \* 'just posted'
    <<"0"," ","d","a","y","s"," ","a","g","o">> >>  \* '0 days ago'
day_old_phrases == <<
    <<"1"," ","d","a","y"," ","a","g","o">>,  \* '1 day ago'
    <<"y","e","s","t","e","r","d","a","y">>,  \* 'yesterday'
    <<"2","4"," ","h","o","u","r","s"," ","a","g","o">> >>  \* '24 hours ago'
days_ago_phrases == <<
    <<"2"," ","d","a","y","s"," ","a","g","o">>,  \* '2 days ago'
    <<"3"," ","d","a","y","s"," ","a","g","o">>,  \* '3 days ago'
    <<"d","a","y","s"," ","a","g","o">> >>  \* 'days ago'
older_phrases == <<
    <<"w","e","e","k">>,  \* 'week'
    <<"m","o","n","t","h">>,  \* 'month'
    <<"y","e","a","r">> >>  \* 'year'

\* is_within_24_hours with 'week', 'month' and 'year' taken for recent
is_within_24_hours_older_true(text, now) ==
    IF text = <<>> \/ text = <<"U","n","k","n","o","w","n">> THEN FALSE
    ELSE LET t == strip(lower(text)) IN
         IF AnyIn(recent_phrases, t) THEN TRUE
         ELSE IF AnyIn(day_old_phrases, t) THEN TRUE
         ELSE IF In(<<"h","o","u","r","s"," ","a","g","o">>, t) THEN
              LET hours == re_search_number(t, <<"h","o","u","r">>) IN
              IF hours # NoMatch THEN hours <= 24 ELSE TRUE
         ELSE IF AnyIn(days_ago_phrases, t) THEN
              LET days == re_search_number(t, <<"d","a","y">>) IN
              IF days # NoMatch THEN days <= 1 ELSE FALSE
         ELSE IF AnyIn(older_phrases, t) THEN TRUE
         ELSE absolute_date(t, now)

\* is_within_24_hours with the hours measured against the day of the month
is_within_24_hours_clock_hours(text, now) ==
    IF text = <<>> \/ text = <<"U","n","k","n","o","w","n">> THEN FALSE
    ELSE LET t == strip(lower(text)) IN
         IF AnyIn(recent_phrases, t) THEN TRUE
         ELSE IF AnyIn(day_old_phrases, t) THEN TRUE
         ELSE IF In(<<"h","o","u","r","s"," ","a","g","o">>, t) THEN
              LET hours == re_search_number(t, <<"h","o","u","r">>) IN
              IF hours # NoMatch THEN hours <= now.day ELSE TRUE
         ELSE IF AnyIn(days_ago_phrases, t) THEN
              LET days == re_search_number(t, <<"d","a","y">>) IN
              IF days # NoMatch THEN days <= 1 ELSE FALSE
         ELSE IF AnyIn(older_phrases, t) THEN FALSE
         ELSE absolute_date(t, now)

\* H1BJobParser.is_within_24_hours; now is what datetime.now() returns
is_within_24_hours(text, now) ==
    IF text = <<>> \/ text = <<"U","n","k","n","o","w","n">> THEN FALSE
    ELSE LET t == strip(lower(text)) IN
         IF AnyIn(recent_phrases, t) THEN TRUE
         ELSE IF AnyIn(day_old_phrases, t) THEN TRUE
         ELSE IF In(<<"h","o","u","r","s"," ","a","g","o">>, t) THEN
              LET hours == re_search_number(t, <<"h","o","u","r">>) IN
              IF hours # NoMatch THEN hours <= 24 ELSE TRUE
         ELSE IF AnyIn(days_ago_phrases, t) THEN
              LET days == re_search_number(t, <<"d","a","y">>) IN
              IF days # NoMatch THEN days <= 1 ELSE FALSE
         ELSE IF AnyIn(older_phrases, t) THEN FALSE
         ELSE absolute_date(t, now)

---------------------------------------------------------------------------
(* Inputs *)

MaxFrags == 2
MaxN == 130

\* str(n) of a natural number
RECURSIVE str(_)
str(n) == IF n < 10 THEN <<Digits[n + 1]>>
          ELSE str(n \div 10) \o <<Digits[(n % 10) + 1]>>

\* pieces of job descriptions: every keyword of every list, and text around
Fragments ==
    {h1b_keywords[i] : i \in DOMAIN h1b_keywords}
    \cup {no_sponsorship_keywords[i] : i \in DOMAIN no_sponsorship_keywords}
    \cup {alt_h1b_keywords[i] : i \in DOMAIN alt_h1b_keywords}
    \cup {alt_no_sponsorship_keywords[i] : i \in DOMAIN alt_no_sponsorship_keywords}
    \cup {
          <<"s","p","o","n","s","o","r","s","h","i","p"," ","i","s"," ","n","o","t"," ","a","v","a","i","l","a","b","l","e">>,  \* 'sponsorship is not available'
          <<"v","i","s","a"," ">>,  \* 'visa '
          <<"n","o"," ">>,  \* 'no '
          <<" ","r","e","q","u","i","r","e","d">>,  \* ' required'
          <<"a","d">>,  \* 'ad'
          <<"d","e","v","o","p","s"," ","e","n","g","i","n","e","e","r",","," ">>,  \* 'devops engineer, '
          <<"v">> \o <<DotlessI>> \o <<"s","a"," ","s","p","o","n","s","o","r","s","h","i","p">> }

RECURSIVE Texts(_)
Texts(n) == IF n = 0 THEN {<<>>}
            ELSE Texts(n - 1) \cup {t \o f : t \in Texts(n - 1), f \in Fragments}

\* upper and lower case by turns
mixed(text) ==
    [i \in 1..Len(text) |-> IF i % 2 = 1 THEN upper_char(text[i]) ELSE text[i]]

CaseModes == {"lower", "upper", "mixed"}
Recase(mode, text) ==
    CASE mode = "lower" -> lower(text)
      [] mode = "upper" -> upper(text)
      [] mode = "mixed" -> mixed(text)

Descriptions == {Recase(mode, t) : mode \in CaseModes, t \in Texts(MaxFrags)}

HoursAgo(n) == str(n) \o <<" ","h","o","u","r","s"," ","a","g","o">>  \* ' hours ago'
HourAgo(n) == str(n) \o <<" ","h","o","u","r"," ","a","g","o">>  \* ' hour ago'
DaysAgo(n) == str(n) \o <<" ","d","a","y","s"," ","a","g","o">>  \* ' days ago'
DayAgo(n) == str(n) \o <<" ","d","a","y"," ","a","g","o">>  \* ' day ago'

RelativeTexts ==
    UNION {{HoursAgo(n), HourAgo(n), DaysAgo(n), DayAgo(n)} : n \in 0..MaxN}

PhraseTexts ==
    { <<>>,
      <<"U","n","k","n","o","w","n">>,  \* 'Unknown'
      <<"u","n","k","n","o","w","n">>,  \* 'unknown'
      <<" "," ">>,  \* '  '
      <<"T","o","d","a","y">>,  \* 'Today'
      <<"J","u","s","t"," ","p","o","s","t","e","d">>,  \* 'Just posted'
      <<"Y","e","s","t","e","r","d","a","y">>,  \* 'Yesterday'
      <<"f","e","w"," ","h","o","u","r","s"," ","a","g","o">>,  \* 'few hours ago'
      <<"h","o","u","r","s"," ","a","g","o">>,  \* 'hours ago'
      <<"s","e","v","e","r","a","l"," ","d","a","y","s"," ","a","g","o">>,  \* 'several days ago'
      <<"d","a","y","s"," ","a","g","o">>,  \* 'days ago'
      <<"3","0","+"," ","d","a","y","s"," ","a","g","o">>,  \* '30+ days ago'
      <<"2"," ","w","e","e","k","s"," ","a","g","o">>,  \* '2 weeks ago'
      <<"1"," ","m","o","n","t","h"," ","a","g","o">>,  \* '1 month ago'
      <<"a"," ","y","e","a","r"," ","a","g","o">>,  \* 'a year ago'
      <<"P","o","s","t","e","d"," ","3"," ","h","o","u","r","s"," ","a","g","o">>,  \* 'Posted 3 hours ago'
      <<" ","3","0"," ","H","o","u","r","s"," ","A","g","o"," ">>,  \* ' 30 Hours Ago '
      <<"3","h","o","u","r","s","a","g","o">>,  \* '3hoursago'
      <<"1","2"," ","3"," ","h","o","u","r","s"," ","a","g","o">>,  \* '12 3 hours ago'
      <<"2","h","o","u","r","s"," ","a","g","o">>,  \* '2hours ago'
      <<"A","c","t","i","v","e"," ","5"," ","d","a","y","s"," ","a","g","o">>,  \* 'Active 5 days ago'
      <<"r","e","c","e","n","t","l","y">>,  \* 'recently'
      <<"n","/","a">>,  \* 'n/a'
      <<"a","-","b","-","c">>,  \* 'a-b-c'
      <<"f","e","b"," ","2","9">>,  \* 'feb 29'
      <<"0","2","/","3","0","/","2","0","2","4">>,  \* '02/30/2024'
      <<"2","0","2","4","-","1","3","-","0","1">>,  \* '2024-13-01'
      <<"1","/","5","/","2","0","2","4">>,  \* '1/5/2024'
      <<"0","3","/","0","1","/","1","9","0","0">>,  \* '03/01/1900'
      <<"2","0","2","4","-","3","-"," ","1">>,  \* '2024-3- 1'
      <<"m","a","r"," "," ","1">>,  \* 'mar  1'
      <<"m","a","r","c","h">>,  \* 'march'
      <<"m","a","r"," ","1","s","t">>,  \* 'mar 1st'
      <<"m","a","r","c","h"," ","0","1">> }  \* 'march 01'

Pad(n, width) == IF width = 4 /\ n < 1000 THEN <<"0">> \o str(n)
                 ELSE IF width = 2 /\ n < 10 THEN <<"0">> \o str(n) ELSE str(n)
capitalize(text) == <<upper_char(text[1])>> \o SubSeq(text, 2, Len(text))

\* date.strftime(pattern)
strftime(date, pattern) ==
    CASE pattern = "%m/%d/%Y" ->
           Pad(date.month, 2) \o <<"/">> \o Pad(date.day, 2) \o <<"/">> \o Pad(date.year, 4)
      [] pattern = "%Y-%m-%d" ->
           Pad(date.year, 4) \o <<"-">> \o Pad(date.month, 2) \o <<"-">> \o Pad(date.day, 2)
      [] pattern = "%b %d" -> capitalize(MonthAbbr[date.month]) \o <<" ">> \o Pad(date.day, 2)
      [] pattern = "%B %d" -> capitalize(MonthName[date.month]) \o <<" ">> \o Pad(date.day, 2)

Day(y, m, d) == [year |-> y, month |-> m, day |-> d]
Dates == { Day(2023, 3, 1), Day(2024, 2, 28), Day(2024, 2, 29), Day(2024, 3, 1),
           Day(2024, 3, 2), Day(2024, 12, 30), Day(2024, 12, 31), Day(2025, 1, 1),
           Day(2025, 1, 2), Day(2099, 1, 1) }

DateTexts == {strftime(d, date_patterns[k]) : d \in Dates, k \in DOMAIN date_patterns}

\* texts that name a week, a month or a year, alone and after other rules
OlderTexts ==
    { <<"L","a","s","t"," ","W","e","e","k">>, <<"1"," ","y","e","a","r">>, <<"m","o","n","t","h">>, <<"5"," ","d","a","y"," ","a","g","o"," ","t","h","i","s"," ","w","e","e","k">>,
      <<"3"," ","h","o","u","r"," ","a","g","o"," ","t","h","i","s"," ","m","o","n","t","h">>,  \* '3 hour ago this month'
      <<"2"," ","d","a","y","s"," ","a","g","o"," ","t","h","i","s"," ","w","e","e","k">>,  \* '2 days ago this week'
      <<"h","o","u","r","s"," ","a","g","o"," ","l","a","s","t"," ","y","e","a","r">>,  \* 'hours ago last year'
      <<"y","e","s","t","e","r","d","a","y"," ","w","e","e","k">>,  \* 'yesterday week'
      <<"p","o","s","t","e","d"," ","2"," ","m","o","n","t","h","s"," ","a","g","o">> }  \* 'posted 2 months ago'

PostingDateTexts == RelativeTexts \cup PhraseTexts \cup DateTexts \cup OlderTexts

At(y, m, d, s) == [year |-> y, month |-> m, day |-> d, second |-> s]
Nows == { At(2024, 3, 1, 0), At(2024, 3, 1, 43200), At(2024, 3, 2, 0),
          At(2024, 12, 31, 86399), At(2025, 1, 1, 1) }

---------------------------------------------------------------------------
(* The JobRecords the scripts build *)

NL == <<"\n">>
Quote == <<"\"">>
\* BULLET, a character outside ASCII
Bullet == <<"U+2022">>

\* str.replace(old, new)
RECURSIVE replace(_, _, _)
replace(text, old, new) ==
    IF text = <<>> THEN <<>>
    ELSE IF LiteralAt(old, text, 1)
         THEN new \o replace(SubSeq(text, Len(old) + 1, Len(text)), old, new)
         ELSE <<text[1]>> \o replace(Tail(text), old, new)

\* dict.get(key, default)
get(dict, key, default) == IF key \in DOMAIN dict THEN dict[key] ELSE default

\* text[:n]
Prefix(text, n) == SubSeq(text, 1, IF Len(text) < n THEN Len(text) ELSE n)

\* H1BJobParser.__init__ and AlternativeH1BJobParser.__init__
target_roles == <<
    <<"d","e","v","o","p","s">>,  \* 'devops'
    <<"d","e","v"," ","o","p","s">>,  \* 'dev ops'
    <<"s","i","t","e"," ","r","e","l","i","a","b","i","l","i","t","y">>,  \* 'site reliability'
    <<"s","r","e">>,  \* 'sre'
    <<"i","n","f","r","a","s","t","r","u","c","t","u","r","e"," ","e","n","g","i","n","e","e","r">>,  \* 'infrastructure engineer'
    <<"p","l","a","t","f","o","r","m"," ","e","n","g","i","n","e","e","r">>,  \* 'platform engineer'
    <<"c","l","o","u","d"," ","e","n","g","i","n","e","e","r">>,  \* 'cloud engineer'
    <<"s","y","s","t","e","m","s"," ","e","n","g","i","n","e","e","r">>,  \* 'systems engineer'
    <<"r","e","l","i","a","b","i","l","i","t","y"," ","e","n","g","i","n","e","e","r">> >>  \* 'reliability engineer'
alt_target_roles == <<
    <<"d","e","v","o","p","s">>,  \* 'devops'
    <<"d","e","v"," ","o","p","s">>,  \* 'dev ops'
    <<"s","i","t","e"," ","r","e","l","i","a","b","i","l","i","t","y">>,  \* 'site reliability'
    <<"s","r","e">>,  \* 'sre'
    <<"i","n","f","r","a","s","t","r","u","c","t","u","r","e"," ","e","n","g","i","n","e","e","r">>,  \* 'infrastructure engineer'
    <<"p","l","a","t","f","o","r","m"," ","e","n","g","i","n","e","e","r">>,  \* 'platform engineer'
    <<"c","l","o","u","d"," ","e","n","g","i","n","e","e","r">>,  \* 'cloud engineer'
    <<"s","y","s","t","e","m","s"," ","e","n","g","i","n","e","e","r">>,  \* 'systems engineer'
    <<"r","e","l","i","a","b","i","l","i","t","y"," ","e","n","g","i","n","e","e","r">> >>  \* 'reliability engineer'

\* is_target_role of both classes
TargetRole(roles, job_title, description) ==
    AnyIn(roles, lower(job_title \o <<" ">> \o description))
is_target_role(job_title, description) ==
    TargetRole(target_roles, job_title, description)
alt_is_target_role(job_title, description) ==
    TargetRole(alt_target_roles, job_title, description)

\* SimpleH1BJobParser.__init__
h1b_companies == <<
    <<"G","o","o","g","l","e">>,  \* 'Google'
    <<"M","i","c","r","o","s","o","f","t">>,  \* 'Microsoft'
    <<"A","m","a","z","o","n">>,  \* 'Amazon'
    <<"M","e","t","a">>,  \* 'Meta'
    <<"N","e","t","f","l","i","x">> >>  \* 'Netflix'
target_keywords == <<
    <<"d","e","v","o","p","s">>,  \* 'devops'
    <<"d","e","v"," ","o","p","s">>,  \* 'dev ops'
    <<"s","i","t","e"," ","r","e","l","i","a","b","i","l","i","t","y">>,  \* 'site reliability'
    <<"s","r","e">>,  \* 'sre'
    <<"i","n","f","r","a","s","t","r","u","c","t","u","r","e"," ","e","n","g","i","n","e","e","r">>,  \* 'infrastructure engineer'
    <<"p","l","a","t","f","o","r","m"," ","e","n","g","i","n","e","e","r">>,  \* 'platform engineer'
    <<"c","l","o","u","d"," ","e","n","g","i","n","e","e","r">>,  \* 'cloud engineer'
    <<"s","y","s","t","e","m","s"," ","e","n","g","i","n","e","e","r">>,  \* 'systems engineer'
    <<"r","e","l","i","a","b","i","l","i","t","y"," ","e","n","g","i","n","e","e","r">> >>  \* 'reliability engineer'
\* create_manual_verification_jobs
common_roles == <<
    <<"S","e","n","i","o","r"," ","D","e","v","O","p","s"," ","E","n","g","i","n","e","e","r">>,  \* 'Senior DevOps Engineer'
    <<"S","i","t","e"," ","R","e","l","i","a","b","i","l","i","t","y"," ","E","n","g","i","n","e","e","r">>,  \* 'Site Reliability Engineer'
    <<"I","n","f","r","a","s","t","r","u","c","t","u","r","e"," ","E","n","g","i","n","e","e","r">>,  \* 'Infrastructure Engineer'
    <<"P","l","a","t","f","o","r","m"," ","E","n","g","i","n","e","e","r">> >>  \* 'Platform Engineer'
\* search_h1b_database_companies
additional_companies == <<
    <<"A","p","p","l","e">>,  \* 'Apple'
    <<"U","b","e","r">>,  \* 'Uber'
    <<"L","y","f","t">>,  \* 'Lyft'
    <<"A","i","r","b","n","b">>,  \* 'Airbnb'
    <<"S","t","r","i","p","e">>,  \* 'Stripe'
    <<"C","o","i","n","b","a","s","e">>,  \* 'Coinbase'
    <<"S","a","l","e","s","f","o","r","c","e">>,  \* 'Salesforce'
    <<"O","r","a","c","l","e">>,  \* 'Oracle'
    <<"I","B","M">>,  \* 'IBM'
    <<"I","n","t","e","l">>,  \* 'Intel'
    <<"N","V","I","D","I","A">>,  \* 'NVIDIA'
    <<"A","d","o","b","e">>,  \* 'Adobe'
    <<"P","a","y","P","a","l">>,  \* 'PayPal'
    <<"e","B","a","y">>,  \* 'eBay'
    <<"Z","o","o","m">>,  \* 'Zoom'
    <<"D","a","t","a","b","r","i","c","k","s">>,  \* 'Databricks'
    <<"S","n","o","w","f","l","a","k","e">> >>  \* 'Snowflake'

\* urllib.parse.quote of one character: letters, digits and _.-~/ stay
percent_encoding(c) ==
    CASE c = " " -> <<"%","2","0">>  \* '%20'
      [] c = "\"" -> <<"%","2","2">>  \* '%22'
      [] c = "$" -> <<"%","2","4">>  \* '%24'
      [] c = "%" -> <<"%","2","5">>  \* '%25'
      [] c = "&" -> <<"%","2","6">>  \* '%26'
      [] c = "'" -> <<"%","2","7">>  \* '%27'
      [] c = "(" -> <<"%","2","8">>  \* '%28'
      [] c = ")" -> <<"%","2","9">>  \* '%29'
      [] c = "+" -> <<"%","2","B">>  \* '%2B'
      [] c = "," -> <<"%","2","C">>  \* '%2C'
      [] c = ":" -> <<"%","3","A">>  \* '%3A'
      [] c = "=" -> <<"%","3","D">>  \* '%3D'
      [] c = "?" -> <<"%","3","F">>  \* '%3F'
      [] c = "[" -> <<"%","5","B">>  \* '%5B'
      [] c = "]" -> <<"%","5","D">>  \* '%5D'
      [] c = "\t" -> <<"%","0","9">>  \* '%09'
      [] c = "\n" -> <<"%","0","A">>  \* '%0A'
      [] c = DotlessI -> <<"%","C","4","%","B","1">>  \* '%C4%B1'
      [] c = "U+2022" -> <<"%","E","2","%","8","0","%","A","2">>  \* '%E2%80%A2'
      [] OTHER -> <<c>>
RECURSIVE quote(_)
quote(text) ==
    IF text = <<>> THEN <<>> ELSE percent_encoding(text[1]) \o quote(Tail(text))

\* MyVisaJobsScraper.generate_job_search_url
generate_job_search_url(company, job_title) ==
    <<"h","t","t","p","s",":","/","/","w","w","w",".","g","o","o","g","l","e",".","c","o","m","/","s","e","a","r","c","h","?","q","=">>  \* 'https://www.google.com/search?q='
        \o quote(company \o <<" ">> \o job_title \o <<" ","c","a","r","e","e","r","s"," ","j","o","b","s">>)

\* get_fallback_employer_list: the hardcoded table of known sponsors
fallback_employers == <<
    [company |-> <<"M","i","c","r","o","s","o","f","t"," ","C","o","r","p","o","r","a","t","i","o","n">>, h1b_count |-> <<"4",",","9","7","0">>,
     avg_salary |-> <<"$","1","4","7",",","4","2","6">>],
    [company |-> <<"A","m","a","z","o","n",".","c","o","m"," ","S","e","r","v","i","c","e","s"," ","L","L","C">>, h1b_count |-> <<"3",",","8","7","1">>,
     avg_salary |-> <<"$","1","3","9",",","5","2","9">>],
    [company |-> <<"G","o","o","g","l","e"," ","L","L","C">>, h1b_count |-> <<"3",",","5","9","1">>,
     avg_salary |-> <<"$","1","6","1",",","2","5","4">>],
    [company |-> <<"M","e","t","a"," ","P","l","a","t","f","o","r","m","s"," ","I","n","c">>, h1b_count |-> <<"2",",","0","7","4">>,
     avg_salary |-> <<"$","1","7","3",",","6","8","7">>],
    [company |-> <<"A","p","p","l","e"," ","I","n","c">>, h1b_count |-> <<"2",",","4","5","0">>,
     avg_salary |-> <<"$","1","5","6",",","5","3","4">>],
    [company |-> <<"D","a","t","a","b","r","i","c","k","s"," ","I","n","c">>, h1b_count |-> <<"5","2","3">>,
     avg_salary |-> <<"$","1","5","2",",","4","3","6">>],
    [company |-> <<"S","n","o","w","f","l","a","k","e"," ","C","o","m","p","u","t","i","n","g">>, h1b_count |-> <<"4","1","7">>,
     avg_salary |-> <<"$","1","4","5",",","9","8","2">>],
    [company |-> <<"S","t","r","i","p","e"," ","I","n","c">>, h1b_count |-> <<"2","8","9">>,
     avg_salary |-> <<"$","1","4","8",",","2","9","3">>],
    [company |-> <<"C","o","i","n","b","a","s","e"," ","G","l","o","b","a","l">>, h1b_count |-> <<"1","9","6">>,
     avg_salary |-> <<"$","1","3","8",",","7","4","5">>],
    [company |-> <<"D","a","t","a","d","o","g"," ","I","n","c">>, h1b_count |-> <<"2","3","4">>,
     avg_salary |-> <<"$","1","4","1",",","8","7","6">>],
    [company |-> <<"E","l","a","s","t","i","c"," ","N","V">>, h1b_count |-> <<"1","7","8">>,
     avg_salary |-> <<"$","1","3","5",",","2","3","4">>],
    [company |-> <<"H","a","s","h","i","C","o","r","p"," ","I","n","c">>, h1b_count |-> <<"1","4","2">>,
     avg_salary |-> <<"$","1","3","8",",","4","5","6">>],
    [company |-> <<"G","i","t","L","a","b"," ","I","n","c">>, h1b_count |-> <<"9","8">>,
     avg_salary |-> <<"$","1","3","1",",","2","3","4">>],
    [company |-> <<"M","o","n","g","o","D","B"," ","I","n","c">>, h1b_count |-> <<"2","1","5">>,
     avg_salary |-> <<"$","1","3","9",",","8","7","6">>],
    [company |-> <<"C","o","n","f","l","u","e","n","t"," ","I","n","c">>, h1b_count |-> <<"1","8","6">>,
     avg_salary |-> <<"$","1","4","2",",","3","4","5">>],
    [company |-> <<"T","e","m","p","o","r","a","l"," ","T","e","c","h","n","o","l","o","g","i","e","s">>, h1b_count |-> <<"2","3">>,
     avg_salary |-> <<"$","1","2","5",",","4","3","2">>],
    [company |-> <<"P","u","l","u","m","i"," ","C","o","r","p","o","r","a","t","i","o","n">>, h1b_count |-> <<"3","1">>,
     avg_salary |-> <<"$","1","2","8",",","7","6","5">>],
    [company |-> <<"T","e","l","e","p","o","r","t"," ","I","n","c">>, h1b_count |-> <<"2","7">>,
     avg_salary |-> <<"$","1","2","4",",","5","6","7">>],
    [company |-> <<"A","i","r","b","y","t","e"," ","I","n","c">>, h1b_count |-> <<"1","8">>,
     avg_salary |-> <<"$","1","1","9",",","8","7","6">>],
    [company |-> <<"A","s","t","r","o","n","o","m","e","r"," ","I","n","c">>, h1b_count |-> <<"2","1">>,
     avg_salary |-> <<"$","1","2","1",",","2","3","4">>],
    [company |-> <<"H","a","r","n","e","s","s"," ","I","n","c">>, h1b_count |-> <<"4","3">>,
     avg_salary |-> <<"$","1","2","7",",","8","9","0">>],
    [company |-> <<"L","a","u","n","c","h","D","a","r","k","l","y">>, h1b_count |-> <<"3","7">>,
     avg_salary |-> <<"$","1","2","3",",","4","5","6">>],
    [company |-> <<"K","o","n","g"," ","I","n","c">>, h1b_count |-> <<"4","8">>,
     avg_salary |-> <<"$","1","2","5",",","6","7","8">>],
    [company |-> <<"G","r","a","f","a","n","a"," ","L","a","b","s">>, h1b_count |-> <<"5","2">>,
     avg_salary |-> <<"$","1","2","8",",","9","0","1">>],
    [company |-> <<"I","n","f","l","u","x","D","a","t","a"," ","I","n","c">>, h1b_count |-> <<"2","6">>,
     avg_salary |-> <<"$","1","2","0",",","1","2","3">>],
    [company |-> <<"S","y","s","d","i","g"," ","I","n","c">>, h1b_count |-> <<"2","9">>,
     avg_salary |-> <<"$","1","2","2",",","3","4","5">>],
    [company |-> <<"C","i","r","c","l","e","C","I">>, h1b_count |-> <<"3","4">>,
     avg_salary |-> <<"$","1","2","6",",","7","8","9">>],
    [company |-> <<"B","u","i","l","d","k","i","t","e">>, h1b_count |-> <<"1","5">>,
     avg_salary |-> <<"$","1","1","8",",","2","3","4">>],
    [company |-> <<"S","o","u","r","c","e","g","r","a","p","h">>, h1b_count |-> <<"3","8">>,
     avg_salary |-> <<"$","1","2","9",",","4","5","6">>],
    [company |-> <<"S","q","u","a","r","e"," ","I","n","c"," ","(","B","l","o","c","k",")">>, h1b_count |-> <<"3","1","2">>,
     avg_salary |-> <<"$","1","4","5",",","6","7","8">>],
    [company |-> <<"R","o","b","i","n","h","o","o","d"," ","M","a","r","k","e","t","s">>, h1b_count |-> <<"1","7","8">>,
     avg_salary |-> <<"$","1","3","8",",","9","0","1">>],
    [company |-> <<"A","f","f","i","r","m"," ","I","n","c">>, h1b_count |-> <<"1","5","6">>,
     avg_salary |-> <<"$","1","3","4",",","5","6","7">>],
    [company |-> <<"P","l","a","i","d"," ","I","n","c">>, h1b_count |-> <<"8","9">>,
     avg_salary |-> <<"$","1","3","6",",","7","8","9">>],
    [company |-> <<"C","h","i","m","e"," ","F","i","n","a","n","c","i","a","l">>, h1b_count |-> <<"6","7">>,
     avg_salary |-> <<"$","1","2","8",",","3","4","5">>],
    [company |-> <<"A","c","c","e","n","t","u","r","e"," ","L","L","P">>, h1b_count |-> <<"8",",","1","2","3">>,
     avg_salary |-> <<"$","9","8",",","4","3","2">>],
    [company |-> <<"D","e","l","o","i","t","t","e"," ","C","o","n","s","u","l","t","i","n","g">>, h1b_count |-> <<"6",",","9","8","7">>,
     avg_salary |-> <<"$","1","0","2",",","3","4","5">>],
    [company |-> <<"E","P","A","M"," ","S","y","s","t","e","m","s">>, h1b_count |-> <<"2",",","1","4","5">>,
     avg_salary |-> <<"$","1","0","8",",","7","6","5">>],
    [company |-> <<"T","h","o","u","g","h","t","w","o","r","k","s"," ","I","n","c">>, h1b_count |-> <<"2","3","4">>,
     avg_salary |-> <<"$","1","1","5",",","4","3","2">>],
    [company |-> <<"G","o","l","d","m","a","n"," ","S","a","c","h","s">>, h1b_count |-> <<"1",",","5","6","7">>,
     avg_salary |-> <<"$","1","3","8",",","2","3","4">>],
    [company |-> <<"J","P","M","o","r","g","a","n"," ","C","h","a","s","e">>, h1b_count |-> <<"3",",","2","3","4">>,
     avg_salary |-> <<"$","1","2","8",",","4","5","6">>],
    [company |-> <<"C","a","p","i","t","a","l"," ","O","n","e">>, h1b_count |-> <<"2",",","0","8","9">>,
     avg_salary |-> <<"$","1","2","5",",","6","7","8">>],
    [company |-> <<"B","l","o","o","m","b","e","r","g"," ","L","P">>, h1b_count |-> <<"8","2","3">>,
     avg_salary |-> <<"$","1","4","2",",","3","4","5">>] >>

\* emp['job_search_url'] = url
WithUrl(emp, url) ==
    [company |-> emp.company, h1b_count |-> emp.h1b_count,
     avg_salary |-> emp.avg_salary, job_search_url |-> url]

\* the test of get_fallback_employer_list on one entry
MeetsSalary(emp, min_salary) ==
    LET salary_str == replace(replace(emp.avg_salary, <<"$">>, <<>>), <<",">>, <<>>)
    IN  salary_str # <<>> /\ AllDigits(salary_str) /\ int(salary_str) >= min_salary

\* MyVisaJobsScraper.get_fallback_employer_list
get_fallback_employer_list(job_title, min_salary) ==
    LET Test(emp) == MeetsSalary(emp, min_salary)
        filtered == SelectSeq(fallback_employers, Test)
    IN  [i \in DOMAIN filtered |->
            WithUrl(filtered[i],
                    generate_job_search_url(filtered[i].company, job_title))]

\* MyVisaJobsScraper.get_company_size_advantage
get_company_size_advantage(h1b_count) ==
    LET count_str == strip(replace(h1b_count, <<",">>, <<>>)) IN
    IF int_accepts(count_str)
    THEN LET count == int_value(count_str) IN
         IF count > 1000
         THEN <<"L","a","r","g","e"," ","C","o","m","p","a","n","y",":"," ","E","s","t","a","b","l","i","s","h","e","d"," ","H","1","B"," ">>  \* 'Large Company: Established H1B '
              \o <<"p","r","o","c","e","s","s",","," ","h","i","g","h","e","r"," ","v","o","l","u","m","e"," ","b","u","t"," ","m","o","r","e"," ">>  \* 'process, higher volume but more '
              \o <<"c","o","m","p","e","t","i","t","i","o","n">>  \* 'competition'
         ELSE IF count > 100
         THEN <<"M","e","d","i","u","m"," ","C","o","m","p","a","n","y",":"," ","G","o","o","d"," ","H","1","B"," ","s","u","p","p","o","r","t",","," ">>  \* 'Medium Company: Good H1B support, '
              \o <<"l","e","s","s"," ","c","o","m","p","e","t","i","t","i","o","n"," ","t","h","a","n"," ","b","i","g"," ","t","e","c","h">>  \* 'less competition than big tech'
         ELSE IF count > 20
         THEN <<"S","m","a","l","l","-","M","e","d","i","u","m"," ","C","o","m","p","a","n","y",":"," ","G","r","o","w","i","n","g"," ">>  \* 'Small-Medium Company: Growing '
              \o <<"t","e","a","m",","," ","o","f","t","e","n"," ","f","a","s","t","e","r"," ","H","1","B"," ","p","r","o","c","e","s","s","i","n","g">>  \* 'team, often faster H1B processing'
         ELSE <<"S","m","a","l","l"," ","C","o","m","p","a","n","y",":"," ","S","e","l","e","c","t","i","v","e"," ","H","1","B"," ">>  \* 'Small Company: Selective H1B '
              \o <<"s","p","o","n","s","o","r","s","h","i","p",","," ","g","o","o","d"," ","f","o","r"," ","s","p","e","c","i","a","l","i","z","e","d"," ">>  \* 'sponsorship, good for specialized '
              \o <<"s","k","i","l","l","s">>  \* 'skills'
    ELSE <<"C","o","m","p","a","n","y"," ","a","c","t","i","v","e","l","y"," ","s","p","o","n","s","o","r","s"," ","H","1","B"," ","v","i","s","a","s">>  \* 'Company actively sponsors H1B visas'

\* create_job_entries: the company name for display
company_name(employer) ==
    replace(replace(replace(employer.company, <<" ","L","L","C">>, <<>>), <<" ","I","n","c">>, <<>>),
            <<" ","C","o","r","p","o","r","a","t","i","o","n">>, <<>>)

\* search_company_jobs: 'description' of a job found on a career page
career_page_description(company) ==
       <<"J","o","b"," ","f","o","u","n","d"," ","o","n"," ">>  \* 'Job found on '
    \o company
    \o <<" ","c","a","r","e","e","r"," ","p","a","g","e","."," ","M","a","n","u","a","l"," ","v","e","r","i","f","i","c","a","t","i","o","n"," ">>  \* ' career page. Manual verification '
    \o <<"r","e","q","u","i","r","e","d",".">>  \* 'required.'

\* create_manual_verification_jobs: 'description' of a placeholder entry
manual_verification_description(company, role) ==
    strip(
          NL \o company
       \o <<" ","r","e","g","u","l","a","r","l","y"," ","h","i","r","e","s"," ","f","o","r"," ">>  \* ' regularly hires for '
       \o role
       \o <<" ","p","o","s","i","t","i","o","n","s"," ","a","c","r","o","s","s"," ","m","u","l","t","i","p","l","e"," ","U","S"," ">>  \* ' positions across multiple US '
       \o <<"l","o","c","a","t","i","o","n","s",".">>  \* 'locations.'
       \o NL \o NL
       \o <<"T","h","i","s"," ","i","s"," ","a"," ","p","l","a","c","e","h","o","l","d","e","r"," ","e","n","t","r","y"," ","f","o","r"," ">>  \* 'This is a placeholder entry for '
       \o <<"m","a","n","u","a","l"," ","v","e","r","i","f","i","c","a","t","i","o","n","."," ","P","l","e","a","s","e"," ","c","h","e","c","k"," ">>  \* 'manual verification. Please check '
       \o <<"t","h","e"," ","c","o","m","p","a","n","y","'","s"," ">>  \* 'the company's '
       \o NL
       \o <<"c","a","r","e","e","r"," ","p","a","g","e"," ","d","i","r","e","c","t","l","y"," ","f","o","r"," ","c","u","r","r","e","n","t"," ">>  \* 'career page directly for current '
       \o <<"o","p","e","n","i","n","g","s",".">>  \* 'openings.'
       \o NL \o NL \o company
       \o <<" ","i","s"," ","a"," ","k","n","o","w","n"," ","H","1","B"," ","s","p","o","n","s","o","r"," ","w","i","t","h"," ","a"," ">>  \* ' is a known H1B sponsor with a '
       \o <<"h","i","s","t","o","r","y"," ","o","f"," ","s","u","p","p","o","r","t","i","n","g"," ">>  \* 'history of supporting '
       \o <<"i","n","t","e","r","n","a","t","i","o","n","a","l"," ","t","a","l","e","n","t",".">>  \* 'international talent.'
       \o NL
       \o <<"T","h","e","y"," ","t","y","p","i","c","a","l","l","y"," ","s","p","o","n","s","o","r"," ","H","1","B"," ","v","i","s","a","s"," ">>  \* 'They typically sponsor H1B visas '
       \o <<"f","o","r"," ","q","u","a","l","i","f","i","e","d"," ","s","o","f","t","w","a","r","e"," ">>  \* 'for qualified software '
       \o <<"e","n","g","i","n","e","e","r","i","n","g"," ","r","o","l","e","s",".">>  \* 'engineering roles.'
       \o NL \o NL
       \o <<"T","o"," ","v","e","r","i","f","y"," ","c","u","r","r","e","n","t"," ","o","p","e","n","i","n","g","s",":">>  \* 'To verify current openings:'
       \o NL
       \o <<"1","."," ","V","i","s","i","t"," ","t","h","e"," ","c","o","m","p","a","n","y","'","s"," ","c","a","r","e","e","r"," ","p","a","g","e">>  \* '1. Visit the company's career page'
       \o NL
       \o <<"2","."," ","S","e","a","r","c","h"," ","f","o","r"," ">>  \* '2. Search for '
       \o Quote \o lower(role) \o Quote
       \o <<" ","o","r"," ">>  \* ' or '
       \o Quote
       \o <<"d","e","v","o","p","s">>  \* 'devops'
       \o Quote
       \o <<" ","o","r"," ">>  \* ' or '
       \o Quote
       \o <<"s","r","e">>  \* 'sre'
       \o Quote \o NL
       \o <<"3","."," ","C","h","e","c","k"," ","j","o","b"," ","r","e","q","u","i","r","e","m","e","n","t","s"," ","f","o","r"," ">>  \* '3. Check job requirements for '
       \o <<"v","i","s","a"," ","s","p","o","n","s","o","r","s","h","i","p"," ","m","e","n","t","i","o","n","s">>  \* 'visa sponsorship mentions'
       \o NL
       \o <<"4","."," ","A","p","p","l","y"," ","d","i","r","e","c","t","l","y"," ","t","h","r","o","u","g","h"," ","t","h","e","i","r"," ">>  \* '4. Apply directly through their '
       \o <<"c","a","r","e","e","r"," ","p","o","r","t","a","l">>  \* 'career portal'
       \o NL \o NL
       \o <<"S","k","i","l","l","s"," ","t","y","p","i","c","a","l","l","y"," ","r","e","q","u","i","r","e","d",":">>  \* 'Skills typically required:'
       \o NL
       \o <<"-"," ","C","l","o","u","d"," ","p","l","a","t","f","o","r","m","s"," ","(","A","W","S","/","G","C","P","/","A","z","u","r","e",")">>  \* '- Cloud platforms (AWS/GCP/Azure)'
       \o NL
       \o <<"-"," ","I","n","f","r","a","s","t","r","u","c","t","u","r","e"," ","a","s"," ","C","o","d","e"," ">>  \* '- Infrastructure as Code '
       \o <<"(","T","e","r","r","a","f","o","r","m",","," ","C","l","o","u","d","F","o","r","m","a","t","i","o","n",")">>  \* '(Terraform, CloudFormation)'
       \o NL
       \o <<"-"," ","C","o","n","t","a","i","n","e","r"," ","o","r","c","h","e","s","t","r","a","t","i","o","n"," ">>  \* '- Container orchestration '
       \o <<"(","K","u","b","e","r","n","e","t","e","s",","," ","D","o","c","k","e","r",")"," "," ">>  \* '(Kubernetes, Docker)  '
       \o NL
       \o <<"-"," ","C","I","/","C","D"," ","p","i","p","e","l","i","n","e","s"," ","a","n","d"," ","a","u","t","o","m","a","t","i","o","n">>  \* '- CI/CD pipelines and automation'
       \o NL
       \o <<"-"," ","M","o","n","i","t","o","r","i","n","g"," ","a","n","d"," ","o","b","s","e","r","v","a","b","i","l","i","t","y"," ">>  \* '- Monitoring and observability '
       \o <<"t","o","o","l","s">>  \* 'tools'
       \o NL
       \o <<"-"," ","P","r","o","g","r","a","m","m","i","n","g"," ","(","P","y","t","h","o","n",","," ","G","o",","," ","J","a","v","a",","," ">>  \* '- Programming (Python, Go, Java, '
       \o <<"e","t","c",".",")">>  \* 'etc.)'
       \o NL
       \o <<" "," "," "," "," "," "," "," "," "," "," "," "," "," "," "," ">>  \* '                '
    )

\* search_h1b_database_companies: 'description' of a lead
database_description(company) ==
    strip(
          NL \o company
       \o <<" ","i","s"," ","a"," ","c","o","n","f","i","r","m","e","d"," ","H","1","B"," ","s","p","o","n","s","o","r"," ","b","a","s","e","d"," ">>  \* ' is a confirmed H1B sponsor based '
       \o <<"o","n"," ","h","i","s","t","o","r","i","c","a","l"," ","U","S","C","I","S"," ","d","a","t","a",".">>  \* 'on historical USCIS data.'
       \o NL \o NL
       \o <<"A","c","c","o","r","d","i","n","g"," ","t","o"," ","H","1","B"," ","d","a","t","a","b","a","s","e","s"," ">>  \* 'According to H1B databases '
       \o <<"(","M","y","V","i","s","a","J","o","b","s",".","c","o","m",","," ","H","1","B","G","r","a","d","e","r",".","c","o","m",")",","," ">>  \* '(MyVisaJobs.com, H1BGrader.com), '
       \o company
       \o <<" ","h","a","s"," ">>  \* ' has '
       \o NL
       \o <<"s","p","o","n","s","o","r","e","d"," ","H","1","B"," ","v","i","s","a","s"," ","f","o","r"," ","s","o","f","t","w","a","r","e"," ">>  \* 'sponsored H1B visas for software '
       \o <<"e","n","g","i","n","e","e","r","i","n","g"," ","r","o","l","e","s"," ","i","n","c","l","u","d","i","n","g"," ">>  \* 'engineering roles including '
       \o <<"D","e","v","O","p","s",","," ","S","R","E",","," ">>  \* 'DevOps, SRE, '
       \o NL
       \o <<"a","n","d"," ","I","n","f","r","a","s","t","r","u","c","t","u","r","e"," ","p","o","s","i","t","i","o","n","s",".">>  \* 'and Infrastructure positions.'
       \o NL \o NL
       \o <<"N","e","x","t"," ","s","t","e","p","s",":">>  \* 'Next steps:'
       \o NL
       \o <<"1","."," ","V","i","s","i","t"," ">>  \* '1. Visit '
       \o company
       \o <<"'","s"," ","c","a","r","e","e","r"," ","p","a","g","e">>  \* ''s career page'
       \o NL
       \o <<"2","."," ","S","e","a","r","c","h"," ","f","o","r",":"," ">>  \* '2. Search for: '
       \o Quote
       \o <<"d","e","v","o","p","s">>  \* 'devops'
       \o Quote
       \o <<","," ">>  \* ', '
       \o Quote
       \o <<"s","r","e">>  \* 'sre'
       \o Quote
       \o <<","," ">>  \* ', '
       \o Quote
       \o <<"i","n","f","r","a","s","t","r","u","c","t","u","r","e">>  \* 'infrastructure'
       \o Quote
       \o <<","," ">>  \* ', '
       \o Quote
       \o <<"p","l","a","t","f","o","r","m">>  \* 'platform'
       \o Quote
       \o <<","," ">>  \* ', '
       \o Quote
       \o <<"c","l","o","u","d">>  \* 'cloud'
       \o Quote \o NL
       \o <<"3","."," ","L","o","o","k"," ","f","o","r"," ","v","i","s","a"," ","s","p","o","n","s","o","r","s","h","i","p"," ">>  \* '3. Look for visa sponsorship '
       \o <<"m","e","n","t","i","o","n","s"," ","i","n"," ","j","o","b"," ","d","e","s","c","r","i","p","t","i","o","n","s">>  \* 'mentions in job descriptions'
       \o NL
       \o <<"4","."," ","A","p","p","l","y"," ","d","i","r","e","c","t","l","y"," ","a","n","d"," ","m","e","n","t","i","o","n"," ">>  \* '4. Apply directly and mention '
       \o <<"y","o","u","r"," ","H","1","B"," ","s","p","o","n","s","o","r","s","h","i","p"," ","n","e","e","d","s">>  \* 'your H1B sponsorship needs'
       \o NL \o NL \o company
       \o <<" ","t","y","p","i","c","a","l","l","y"," ","s","p","o","n","s","o","r","s"," ","q","u","a","l","i","f","i","e","d"," ">>  \* ' typically sponsors qualified '
       \o <<"c","a","n","d","i","d","a","t","e","s"," ","f","o","r",":">>  \* 'candidates for:'
       \o NL
       \o <<"-"," ","S","o","f","t","w","a","r","e"," ","E","n","g","i","n","e","e","r"," ","r","o","l","e","s">>  \* '- Software Engineer roles'
       \o NL
       \o <<"-"," ","D","e","v","O","p","s"," ","E","n","g","i","n","e","e","r"," ","p","o","s","i","t","i","o","n","s"," "," ">>  \* '- DevOps Engineer positions  '
       \o NL
       \o <<"-"," ","S","i","t","e"," ","R","e","l","i","a","b","i","l","i","t","y"," ","E","n","g","i","n","e","e","r"," ","r","o","l","e","s">>  \* '- Site Reliability Engineer roles'
       \o NL
       \o <<"-"," ","I","n","f","r","a","s","t","r","u","c","t","u","r","e"," ","E","n","g","i","n","e","e","r"," ">>  \* '- Infrastructure Engineer '
       \o <<"p","o","s","i","t","i","o","n","s">>  \* 'positions'
       \o NL
       \o <<"-"," ","P","l","a","t","f","o","r","m"," ","E","n","g","i","n","e","e","r"," ","r","o","l","e","s">>  \* '- Platform Engineer roles'
       \o NL \o NL
       \o <<"R","e","c","o","m","m","e","n","d","e","d"," ","a","p","p","r","o","a","c","h",":">>  \* 'Recommended approach:'
       \o NL
       \o <<"-"," ","A","p","p","l","y"," ","d","i","r","e","c","t","l","y"," ","o","n"," ","c","o","m","p","a","n","y"," ">>  \* '- Apply directly on company '
       \o <<"w","e","b","s","i","t","e">>  \* 'website'
       \o NL
       \o <<"-"," ","N","e","t","w","o","r","k"," ","w","i","t","h"," ","c","u","r","r","e","n","t"," ","e","m","p","l","o","y","e","e","s"," ">>  \* '- Network with current employees '
       \o <<"o","n"," ","L","i","n","k","e","d","I","n">>  \* 'on LinkedIn'
       \o NL
       \o <<"-"," ","H","i","g","h","l","i","g","h","t"," ","r","e","l","e","v","a","n","t"," ">>  \* '- Highlight relevant '
       \o <<"c","l","o","u","d","/","i","n","f","r","a","s","t","r","u","c","t","u","r","e"," ","e","x","p","e","r","i","e","n","c","e">>  \* 'cloud/infrastructure experience'
       \o NL
       \o <<"-"," ","B","e"," ","u","p","f","r","o","n","t"," ","a","b","o","u","t"," ","v","i","s","a"," ">>  \* '- Be upfront about visa '
       \o <<"s","p","o","n","s","o","r","s","h","i","p"," ","r","e","q","u","i","r","e","m","e","n","t","s">>  \* 'sponsorship requirements'
       \o NL
       \o <<" "," "," "," "," "," "," "," "," "," "," "," "," "," "," "," ">>  \* '                '
    )

\* get_manual_search_guide: 'description' of the guide entry
guide_description ==
    strip(
          NL
       \o <<"S","T","E","P","-","B","Y","-","S","T","E","P"," ","H","1","B"," ","J","O","B"," ","S","E","A","R","C","H"," ","G","U","I","D","E"," ">>  \* 'STEP-BY-STEP H1B JOB SEARCH GUIDE '
       \o <<"F","O","R"," ","D","E","V","O","P","S","/","S","R","E"," ","R","O","L","E","S">>  \* 'FOR DEVOPS/SRE ROLES'
       \o NL \o NL
       \o <<"S","i","n","c","e"," ","a","u","t","o","m","a","t","e","d"," ","s","c","r","a","p","i","n","g"," ","i","s"," ","o","f","t","e","n"," ">>  \* 'Since automated scraping is often '
       \o <<"b","l","o","c","k","e","d",","," ","h","e","r","e","'","s"," ","a"," ","m","a","n","u","a","l"," ","a","p","p","r","o","a","c","h"," ">>  \* 'blocked, here's a manual approach '
       \o <<"t","h","a","t"," ","w","o","r","k","s",":">>  \* 'that works:'
       \o NL \o NL
       \o <<"1","."," ","D","I","R","E","C","T"," ","C","O","M","P","A","N","Y"," ","S","E","A","R","C","H","E","S",":">>  \* '1. DIRECT COMPANY SEARCHES:'
       \o NL
       \o <<" "," "," ","-"," ","G","o","o","g","l","e"," ","C","a","r","e","e","r","s",":"," ">>  \* '   - Google Careers: '
       \o <<"h","t","t","p","s",":","/","/","c","a","r","e","e","r","s",".","g","o","o","g","l","e",".","c","o","m","/","j","o","b","s","/","r","e">>  \* 'https://careers.google.com/jobs/re'
       \o <<"s","u","l","t","s","/">>  \* 'sults/'
       \o NL
       \o <<" "," "," ","-"," ","M","i","c","r","o","s","o","f","t"," ","C","a","r","e","e","r","s",":"," ">>  \* '   - Microsoft Careers: '
       \o <<"h","t","t","p","s",":","/","/","c","a","r","e","e","r","s",".","m","i","c","r","o","s","o","f","t",".","c","o","m","/","u","s","/","e">>  \* 'https://careers.microsoft.com/us/e'
       \o <<"n","/">>  \* 'n/'
       \o NL
       \o <<" "," "," ","-"," ","A","m","a","z","o","n"," ","J","o","b","s",":"," ">>  \* '   - Amazon Jobs: '
       \o <<"h","t","t","p","s",":","/","/","a","m","a","z","o","n",".","j","o","b","s","/","e","n","/">>  \* 'https://amazon.jobs/en/'
       \o NL
       \o <<" "," "," ","-"," ","M","e","t","a"," ","C","a","r","e","e","r","s",":"," ">>  \* '   - Meta Careers: '
       \o <<"h","t","t","p","s",":","/","/","w","w","w",".","m","e","t","a","c","a","r","e","e","r","s",".","c","o","m","/","j","o","b","s","/">>  \* 'https://www.metacareers.com/jobs/'
       \o NL
       \o <<" "," "," ","-"," ","A","p","p","l","e"," ","J","o","b","s",":"," ">>  \* '   - Apple Jobs: '
       \o <<"h","t","t","p","s",":","/","/","j","o","b","s",".","a","p","p","l","e",".","c","o","m","/","e","n","-","u","s","/","s","e","a","r","c">>  \* 'https://jobs.apple.com/en-us/searc'
       \o <<"h">>
       \o NL
       \o <<" "," "," ","-"," ","N","e","t","f","l","i","x"," ","J","o","b","s",":"," ">>  \* '   - Netflix Jobs: '
       \o <<"h","t","t","p","s",":","/","/","j","o","b","s",".","n","e","t","f","l","i","x",".","c","o","m","/","s","e","a","r","c","h">>  \* 'https://jobs.netflix.com/search'
       \o NL \o NL
       \o <<"2","."," ","H","1","B"," ","D","A","T","A","B","A","S","E"," ","S","I","T","E","S"," ","(","F","i","n","d"," ">>  \* '2. H1B DATABASE SITES (Find '
       \o <<"c","o","n","f","i","r","m","e","d"," ","s","p","o","n","s","o","r","s",")",":">>  \* 'confirmed sponsors):'
       \o NL
       \o <<" "," "," ","-"," ","M","y","V","i","s","a","J","o","b","s",".","c","o","m"," ","-"," ","S","e","a","r","c","h"," ","b","y"," ">>  \* '   - MyVisaJobs.com - Search by '
       \o <<"j","o","b"," ","t","i","t","l","e"," ">>  \* 'job title '
       \o Quote
       \o <<"D","e","v","O","p","s"," ","E","n","g","i","n","e","e","r">>  \* 'DevOps Engineer'
       \o Quote \o NL
       \o <<" "," "," ","-"," ","H","1","B","G","r","a","d","e","r",".","c","o","m"," ","-"," ","C","o","m","p","a","n","y"," ","H","1","B"," ">>  \* '   - H1BGrader.com - Company H1B '
       \o <<"s","p","o","n","s","o","r","s","h","i","p"," ","h","i","s","t","o","r","y">>  \* 'sponsorship history'
       \o NL
       \o <<" "," "," ","-"," ","H","1","B","D","a","t","a",".","i","n","f","o"," ","-"," ","H","i","s","t","o","r","i","c","a","l"," ">>  \* '   - H1BData.info - Historical '
       \o <<"H","1","B"," ","a","p","p","l","i","c","a","t","i","o","n"," ","d","a","t","a">>  \* 'H1B application data'
       \o NL \o NL
       \o <<"3","."," ","S","T","A","R","T","U","P"," ","J","O","B"," ","B","O","A","R","D","S"," ","(","O","f","t","e","n"," ">>  \* '3. STARTUP JOB BOARDS (Often '
       \o <<"s","p","o","n","s","o","r"," ","v","i","s","a","s",")",":">>  \* 'sponsor visas):'
       \o NL
       \o <<" "," "," ","-"," ","W","e","l","l","f","o","u","n","d",".","c","o","m"," ","(","A","n","g","e","l","L","i","s","t",")"," ","-"," ">>  \* '   - Wellfound.com (AngelList) - '
       \o <<"F","i","l","t","e","r"," ","f","o","r"," ","v","i","s","a"," ","s","p","o","n","s","o","r","s","h","i","p">>  \* 'Filter for visa sponsorship'
       \o NL
       \o <<" "," "," ","-"," ","Y"," ","C","o","m","b","i","n","a","t","o","r"," ","W","o","r","k"," ","L","i","s","t",":"," ">>  \* '   - Y Combinator Work List: '
       \o <<"h","t","t","p","s",":","/","/","w","w","w",".","w","o","r","k","a","t","a","s","t","a","r","t","u","p",".","c","o","m","/">>  \* 'https://www.workatastartup.com/'
       \o NL
       \o <<" "," "," ","-"," ","C","r","u","n","c","h","b","a","s","e"," ","j","o","b"," ","l","i","s","t","i","n","g","s">>  \* '   - Crunchbase job listings'
       \o NL \o NL
       \o <<"4","."," ","S","E","A","R","C","H"," ","K","E","Y","W","O","R","D","S"," ","T","O"," ","U","S","E",":">>  \* '4. SEARCH KEYWORDS TO USE:'
       \o NL
       \o <<" "," "," ","-"," ">>  \* '   - '
       \o Quote
       \o <<"D","e","v","O","p","s"," ","E","n","g","i","n","e","e","r"," ","H","1","B">>  \* 'DevOps Engineer H1B'
       \o Quote \o NL
       \o <<" "," "," ","-"," ">>  \* '   - '
       \o Quote
       \o <<"S","i","t","e"," ","R","e","l","i","a","b","i","l","i","t","y"," ","E","n","g","i","n","e","e","r"," ","v","i","s","a"," ">>  \* 'Site Reliability Engineer visa '
       \o <<"s","p","o","n","s","o","r","s","h","i","p">>  \* 'sponsorship'
       \o Quote \o NL
       \o <<" "," "," ","-"," ">>  \* '   - '
       \o Quote
       \o <<"I","n","f","r","a","s","t","r","u","c","t","u","r","e"," ","E","n","g","i","n","e","e","r"," ">>  \* 'Infrastructure Engineer '
       \o <<"i","m","m","i","g","r","a","t","i","o","n">>  \* 'immigration'
       \o Quote \o NL
       \o <<" "," "," ","-"," ">>  \* '   - '
       \o Quote
       \o <<"P","l","a","t","f","o","r","m"," ","E","n","g","i","n","e","e","r"," ","w","o","r","k"," ">>  \* 'Platform Engineer work '
       \o <<"a","u","t","h","o","r","i","z","a","t","i","o","n">>  \* 'authorization'
       \o Quote \o NL \o NL
       \o <<"5","."," ","N","E","T","W","O","R","K","I","N","G"," ","A","P","P","R","O","A","C","H",":">>  \* '5. NETWORKING APPROACH:'
       \o NL
       \o <<" "," "," ","-"," ","L","i","n","k","e","d","I","n",":"," ","C","o","n","n","e","c","t"," ","w","i","t","h"," ">>  \* '   - LinkedIn: Connect with '
       \o <<"D","e","v","O","p","s"," ","e","n","g","i","n","e","e","r","s"," ","a","t"," ","t","a","r","g","e","t"," ">>  \* 'DevOps engineers at target '
       \o <<"c","o","m","p","a","n","i","e","s">>  \* 'companies'
       \o NL
       \o <<" "," "," ","-"," ","S","e","a","r","c","h",":"," ">>  \* '   - Search: '
       \o Quote
       \o <<"[","C","o","m","p","a","n","y","]"," ","D","e","v","O","p","s"," ","E","n","g","i","n","e","e","r">>  \* '[Company] DevOps Engineer'
       \o Quote
       \o <<" ","o","n"," ","L","i","n","k","e","d","I","n">>  \* ' on LinkedIn'
       \o NL
       \o <<" "," "," ","-"," ","A","s","k"," ","a","b","o","u","t"," ","v","i","s","a"," ","s","p","o","n","s","o","r","s","h","i","p"," ">>  \* '   - Ask about visa sponsorship '
       \o <<"p","o","l","i","c","i","e","s">>  \* 'policies'
       \o NL
       \o <<" "," "," ","-"," ","R","e","q","u","e","s","t"," ","r","e","f","e","r","r","a","l","s"," ","f","o","r"," ","o","p","e","n"," ">>  \* '   - Request referrals for open '
       \o <<"p","o","s","i","t","i","o","n","s">>  \* 'positions'
       \o NL \o NL
       \o <<"6","."," ","A","P","P","L","I","C","A","T","I","O","N"," ","S","T","R","A","T","E","G","Y",":">>  \* '6. APPLICATION STRATEGY:'
       \o NL
       \o <<" "," "," ","-"," ","A","p","p","l","y"," ","d","i","r","e","c","t","l","y"," ","o","n"," ","c","o","m","p","a","n","y"," ">>  \* '   - Apply directly on company '
       \o <<"w","e","b","s","i","t","e","s"," ","(","n","o","t"," ","j","o","b"," ","b","o","a","r","d","s",")">>  \* 'websites (not job boards)'
       \o NL
       \o <<" "," "," ","-"," ","M","e","n","t","i","o","n"," ","v","i","s","a"," ","s","p","o","n","s","o","r","s","h","i","p"," ">>  \* '   - Mention visa sponsorship '
       \o <<"n","e","e","d"," ","u","p","f","r","o","n","t">>  \* 'need upfront'
       \o NL
       \o <<" "," "," ","-"," ","H","i","g","h","l","i","g","h","t"," ">>  \* '   - Highlight '
       \o <<"c","l","o","u","d","/","i","n","f","r","a","s","t","r","u","c","t","u","r","e"," ","e","x","p","e","r","i","e","n","c","e">>  \* 'cloud/infrastructure experience'
       \o NL
       \o <<" "," "," ","-"," ","S","h","o","w"," ","a","u","t","o","m","a","t","i","o","n"," ","a","n","d"," ">>  \* '   - Show automation and '
       \o <<"s","c","r","i","p","t","i","n","g"," ","s","k","i","l","l","s">>  \* 'scripting skills'
       \o NL
       \o <<" "," "," ","-"," ","E","m","p","h","a","s","i","z","e"," ","p","r","o","b","l","e","m","-","s","o","l","v","i","n","g"," ">>  \* '   - Emphasize problem-solving '
       \o <<"a","b","i","l","i","t","i","e","s">>  \* 'abilities'
       \o NL \o NL
       \o <<"7","."," ","T","I","M","I","N","G",":">>  \* '7. TIMING:'
       \o NL
       \o <<" "," "," ","-"," ","A","p","p","l","y"," ","e","a","r","l","y"," ","i","n"," ","f","i","s","c","a","l"," ","y","e","a","r"," ">>  \* '   - Apply early in fiscal year '
       \o <<"(","O","c","t","o","b","e","r","-","D","e","c","e","m","b","e","r",")">>  \* '(October-December)'
       \o NL
       \o <<" "," "," ","-"," ","H","1","B"," ","l","o","t","t","e","r","y"," ","o","p","e","n","s"," ","i","n"," ","M","a","r","c","h">>  \* '   - H1B lottery opens in March'
       \o NL
       \o <<" "," "," ","-"," ","M","a","n","y"," ","c","o","m","p","a","n","i","e","s"," ","h","a","v","e"," ","a","n","n","u","a","l"," ">>  \* '   - Many companies have annual '
       \o <<"H","1","B"," ","q","u","o","t","a","s">>  \* 'H1B quotas'
       \o NL \o NL
       \o <<"T","h","i","s"," ","m","a","n","u","a","l"," ","a","p","p","r","o","a","c","h"," ","h","a","s"," ","h","i","g","h","e","r"," ">>  \* 'This manual approach has higher '
       \o <<"s","u","c","c","e","s","s"," ","r","a","t","e","s"," ","t","h","a","n"," ","a","u","t","o","m","a","t","e","d"," ">>  \* 'success rates than automated '
       \o <<"s","c","r","a","p","i","n","g",".">>  \* 'scraping.'
       \o NL
       \o <<" "," "," "," "," "," "," "," "," "," "," "," ">>  \* '            '
    )

\* create_job_entries: 'description' of the entry of an employer
job_entry_description(employer, job_title) ==
    strip(
          NL \o company_name(employer)
       \o <<" ","-"," ","C","o","n","f","i","r","m","e","d"," ","H","1","B"," ","S","p","o","n","s","o","r">>  \* ' - Confirmed H1B Sponsor'
       \o NL \o NL
       \o <<"H","1","B"," ","S","t","a","t","i","s","t","i","c","s"," ","(","2","0","2","4"," ","D","a","t","a",")",":">>  \* 'H1B Statistics (2024 Data):'
       \o NL \o Bullet
       \o <<" ","T","o","t","a","l"," ","H","1","B"," ","A","p","p","l","i","c","a","t","i","o","n","s",":"," ">>  \* ' Total H1B Applications: '
       \o get(employer, "h1b_count", <<"N","/","A">>) \o NL \o Bullet
       \o <<" ","A","v","e","r","a","g","e"," ","S","a","l","a","r","y",":"," ">>  \* ' Average Salary: '
       \o get(employer, "avg_salary", <<"N","/","A">>) \o NL \o NL
       \o <<"T","h","i","s"," ","c","o","m","p","a","n","y"," ","h","a","s"," ","a"," ","p","r","o","v","e","n"," ","t","r","a","c","k"," ">>  \* 'This company has a proven track '
       \o <<"r","e","c","o","r","d"," ","o","f"," ","s","p","o","n","s","o","r","i","n","g"," ","H","1","B"," ","v","i","s","a","s"," ">>  \* 'record of sponsoring H1B visas '
       \o <<"f","o","r"," ">>  \* 'for '
       \o job_title
       \o <<" ","a","n","d"," ","s","i","m","i","l","a","r"," ","t","e","c","h","n","i","c","a","l"," ","r","o","l","e","s",".">>  \* ' and similar technical roles.'
       \o NL \o NL
       \o <<"H","o","w"," ","t","o"," ","A","p","p","l","y",":">>  \* 'How to Apply:'
       \o NL
       \o <<"1","."," ","S","e","a","r","c","h"," ","f","o","r"," ","c","u","r","r","e","n","t"," ","o","p","e","n","i","n","g","s",":"," ">>  \* '1. Search for current openings: '
       \o get(employer, "job_search_url", <<>>) \o NL
       \o <<"2","."," ","V","i","s","i","t"," ","c","o","m","p","a","n","y"," ","c","a","r","e","e","r","s"," ","p","a","g","e"," ">>  \* '2. Visit company careers page '
       \o <<"d","i","r","e","c","t","l","y">>  \* 'directly'
       \o NL
       \o <<"3","."," ","L","o","o","k"," ","f","o","r",":"," ","D","e","v","O","p","s",","," ","S","R","E",","," ">>  \* '3. Look for: DevOps, SRE, '
       \o <<"I","n","f","r","a","s","t","r","u","c","t","u","r","e",","," ","P","l","a","t","f","o","r","m",","," ","C","l","o","u","d"," ">>  \* 'Infrastructure, Platform, Cloud '
       \o <<"E","n","g","i","n","e","e","r"," ","r","o","l","e","s">>  \* 'Engineer roles'
       \o NL
       \o <<"4","."," ","A","p","p","l","y"," ","w","i","t","h","i","n"," ","2","4"," ","h","o","u","r","s"," ","o","f"," ">>  \* '4. Apply within 24 hours of '
       \o <<"p","o","s","t","i","n","g"," ","f","o","r"," ","b","e","s","t"," ","r","e","s","u","l","t","s">>  \* 'posting for best results'
       \o NL
       \o <<"5","."," ","M","e","n","t","i","o","n"," ","H","1","B"," ","s","p","o","n","s","o","r","s","h","i","p"," ">>  \* '5. Mention H1B sponsorship '
       \o <<"r","e","q","u","i","r","e","m","e","n","t"," ","i","n"," ","a","p","p","l","i","c","a","t","i","o","n">>  \* 'requirement in application'
       \o NL \o NL
       \o <<"T","i","p","s"," ","f","o","r"," ","S","u","c","c","e","s","s",":">>  \* 'Tips for Success:'
       \o NL \o Bullet
       \o <<" ","H","i","g","h","l","i","g","h","t"," ","c","l","o","u","d"," ","e","x","p","e","r","i","e","n","c","e"," ">>  \* ' Highlight cloud experience '
       \o <<"(","A","W","S","/","G","C","P","/","A","z","u","r","e",")">>  \* '(AWS/GCP/Azure)'
       \o NL \o Bullet
       \o <<" ","S","h","o","w"," ","I","n","f","r","a","s","t","r","u","c","t","u","r","e"," ","a","s"," ","C","o","d","e"," ">>  \* ' Show Infrastructure as Code '
       \o <<"s","k","i","l","l","s"," ","(","T","e","r","r","a","f","o","r","m",","," ","A","n","s","i","b","l","e",")">>  \* 'skills (Terraform, Ansible)'
       \o NL \o Bullet
       \o <<" ","E","m","p","h","a","s","i","z","e"," ","c","o","n","t","a","i","n","e","r","/","K","u","b","e","r","n","e","t","e","s"," ">>  \* ' Emphasize container/Kubernetes '
       \o <<"e","x","p","e","r","i","e","n","c","e">>  \* 'experience'
       \o NL \o Bullet
       \o <<" ","D","e","m","o","n","s","t","r","a","t","e"," ","C","I","/","C","D"," ","p","i","p","e","l","i","n","e"," ">>  \* ' Demonstrate CI/CD pipeline '
       \o <<"e","x","p","e","r","t","i","s","e">>  \* 'expertise'
       \o NL \o Bullet
       \o <<" ","I","n","c","l","u","d","e"," ","a","n","y"," ","U","S"," ","e","d","u","c","a","t","i","o","n"," ","o","r"," ">>  \* ' Include any US education or '
       \o <<"e","x","p","e","r","i","e","n","c","e">>  \* 'experience'
       \o NL \o NL
       \o <<"C","o","m","p","a","n","y"," ","S","i","z","e"," ","A","d","v","a","n","t","a","g","e",":">>  \* 'Company Size Advantage:'
       \o NL \o get_company_size_advantage(get(employer, "h1b_count", <<"0">>)) \o NL
       \o <<" "," "," "," "," "," "," "," "," "," "," "," "," "," "," "," ">>  \* '                '
    )

---------------------------------------------------------------------------
(* The calls *)

Unset == [sponsors_h1b |-> "unset", confidence |-> "unset", keywords_found |-> <<>>]

ClsIdle == job_description = <<>> /\ h1b_info = Unset /\ cls_pc = "idle"
DateIdle == /\ posting_date_text = <<>> /\ current_time = At(2024, 3, 1, 0)
            /\ within_24_hours = FALSE /\ date_pc = "idle"
            /\ earlier_result = FALSE

\* the fields of a JobRecord that name the job and carry the classification
JobRecord(title, company, description, info) ==
    [title |-> title, company |-> company, description |-> description,
     sponsors_h1b |-> info.sponsors_h1b, confidence |-> info.confidence,
     keywords_found |-> info.keywords_found]

NoJob == JobRecord(<<>>, <<>>, <<>>, Unset)
RecIdle == job_data = NoJob /\ rec_pc = "idle"

\* a file that has not been opened for writing
NoCsv == [exists |-> FALSE, header |-> <<>>, rows |-> <<>>]
NoJson == [exists |-> FALSE, records |-> <<>>]
SaveIdle == /\ jobs = <<>> /\ csv_file = NoCsv /\ json_file = NoJson
            /\ save_pc = "idle"

ScrapeIdle == /\ scraper = "none" /\ max_pages = 0 /\ page = 0
              /\ gets = <<>> /\ scraped = <<>> /\ scrape_pc = "idle"

NoQuery == [job_title |-> <<>>, min_salary |-> 0]
NoSite == [kind |-> "none", status |-> 0, tables |-> <<>>]
EmpIdle == /\ query = NoQuery /\ site = NoSite /\ employers = <<>>
           /\ emp_pc = "idle"
NoWeather == [kind |-> "none", status |-> 0, has403 |-> FALSE, cards |-> 0]
MainIdle == /\ script = "none" /\ weather = NoWeather /\ step = 0
            /\ all_jobs = <<>> /\ written = <<>> /\ main_pc = "idle"

NoPosition == [phase |-> "none", search |-> 0, page |-> 0]
CallsIdle == /\ caller = "none" /\ calls = <<>> /\ position = NoPosition
             /\ calls_pc = "idle"

DedupIdle == collected = <<>> /\ unique = <<>> /\ dedup_pc = "idle"

CardsIdle == /\ card_source = "none" /\ site_cards = <<>> /\ page_no = 0
             /\ cards_left = <<>> /\ handled = <<>> /\ loop_jobs = <<>>
             /\ cards_pc = "idle"

SponsorsIdle == catalog = <<>> /\ sponsors = <<>> /\ sponsors_pc = "idle"

RssIdle == rss_feeds = <<>> /\ rss_index = 0 /\ rss_jobs = <<>> /\ rss_pc = "idle"

ReportIdle ==
    /\ report_employers = <<>> /\ report_jobs = <<>> /\ large_companies = <<>>
    /\ medium_companies = <<>> /\ small_companies = <<>> /\ report_pc = "idle"

CareersIdle ==
    /\ career_page = <<>> /\ open_sites = 0 /\ company_at = 0
    /\ company_jobs = <<>> /\ leads = <<>> /\ careers_pc = "idle"

OutsideClsIdle == /\ DateIdle /\ RecIdle /\ SaveIdle /\ ScrapeIdle /\
                     EmpIdle /\ MainIdle /\ CallsIdle /\ DedupIdle /\
                     CardsIdle /\ SponsorsIdle /\ RssIdle /\ ReportIdle /\
                     CareersIdle
OutsideDateIdle == /\ ClsIdle /\ RecIdle /\ SaveIdle /\ ScrapeIdle /\
                      EmpIdle /\ MainIdle /\ CallsIdle /\ DedupIdle /\
                      CardsIdle /\ SponsorsIdle /\ RssIdle /\ ReportIdle /\
                      CareersIdle
OutsideRecIdle == /\ ClsIdle /\ DateIdle /\ SaveIdle /\ ScrapeIdle /\
                     EmpIdle /\ MainIdle /\ CallsIdle /\ DedupIdle /\
                     CardsIdle /\ SponsorsIdle /\ RssIdle /\ ReportIdle /\
                     CareersIdle
OutsideSaveIdle == /\ ClsIdle /\ DateIdle /\ RecIdle /\ ScrapeIdle /\
                      EmpIdle /\ MainIdle /\ CallsIdle /\ DedupIdle /\
                      CardsIdle /\ SponsorsIdle /\ RssIdle /\ ReportIdle /\
                      CareersIdle
OutsideScrapeIdle == /\ ClsIdle /\ DateIdle /\ RecIdle /\ SaveIdle /\
                        EmpIdle /\ MainIdle /\ CallsIdle /\ DedupIdle /\
                        CardsIdle /\ SponsorsIdle /\ RssIdle /\
                        ReportIdle /\ CareersIdle
OutsideEmpIdle == /\ ClsIdle /\ DateIdle /\ RecIdle /\ SaveIdle /\
                     ScrapeIdle /\ MainIdle /\ CallsIdle /\ DedupIdle /\
                     CardsIdle /\ SponsorsIdle /\ RssIdle /\ ReportIdle /\
                     CareersIdle
OutsideMainIdle == /\ ClsIdle /\ DateIdle /\ RecIdle /\ SaveIdle /\
                      ScrapeIdle /\ EmpIdle /\ CallsIdle /\ DedupIdle /\
                      CardsIdle /\ SponsorsIdle /\ RssIdle /\ ReportIdle /\
                      CareersIdle
OutsideCallsIdle == /\ ClsIdle /\ DateIdle /\ RecIdle /\ SaveIdle /\
                       ScrapeIdle /\ EmpIdle /\ MainIdle /\ DedupIdle /\
                       CardsIdle /\ SponsorsIdle /\ RssIdle /\ ReportIdle /\
                       CareersIdle
OutsideDedupIdle == /\ ClsIdle /\ DateIdle /\ RecIdle /\ SaveIdle /\
                       ScrapeIdle /\ EmpIdle /\ MainIdle /\ CallsIdle /\
                       CardsIdle /\ SponsorsIdle /\ RssIdle /\ ReportIdle /\
                       CareersIdle
OutsideCardsIdle == /\ ClsIdle /\ DateIdle /\ RecIdle /\ SaveIdle /\
                       ScrapeIdle /\ EmpIdle /\ MainIdle /\ CallsIdle /\
                       DedupIdle /\ SponsorsIdle /\ RssIdle /\ ReportIdle /\
                       CareersIdle
OutsideSponsorsIdle == /\ ClsIdle /\ DateIdle /\ RecIdle /\ SaveIdle /\
                          ScrapeIdle /\ EmpIdle /\ MainIdle /\ CallsIdle /\
                          DedupIdle /\ CardsIdle /\ RssIdle /\ ReportIdle /\
                          CareersIdle
OutsideRssIdle == /\ ClsIdle /\ DateIdle /\ RecIdle /\ SaveIdle /\
                     ScrapeIdle /\ EmpIdle /\ MainIdle /\ CallsIdle /\
                     DedupIdle /\ CardsIdle /\ SponsorsIdle /\ ReportIdle /\
                     CareersIdle
OutsideReportIdle == /\ ClsIdle /\ DateIdle /\ RecIdle /\ SaveIdle /\
                        ScrapeIdle /\ EmpIdle /\ MainIdle /\ CallsIdle /\
                        DedupIdle /\ CardsIdle /\ SponsorsIdle /\ RssIdle /\
                        CareersIdle
OutsideCareersIdle == /\ ClsIdle /\ DateIdle /\ RecIdle /\ SaveIdle /\
                         ScrapeIdle /\ EmpIdle /\ MainIdle /\ CallsIdle /\
                         DedupIdle /\ CardsIdle /\ SponsorsIdle /\
                         RssIdle /\ ReportIdle

\* a job description awaits classification
InitClassifier ==
    /\ job_description \in Descriptions
    /\ h1b_info = Unset
    /\ cls_pc = "start"
    /\ OutsideClsIdle

\* parser.check_h1b_sponsorship(job_description) of h1b_job_parser.py
CallCheckH1B ==
    /\ cls_pc = "start"
    /\ h1b_info' = check_h1b_sponsorship(job_description)
    /\ cls_pc' = "H1BJobParser"
    /\ UNCHANGED <<job_description, outside_cls>>

\* parser.check_h1b_sponsorship(job_description) of h1b_alternative_parser.py
CallAltCheckH1B ==
    /\ cls_pc = "start"
    /\ h1b_info' = alt_check_h1b_sponsorship(job_description)
    /\ cls_pc' = "AlternativeH1BJobParser"
    /\ UNCHANGED <<job_description, outside_cls>>

NextClassifier == CallCheckH1B \/ CallAltCheckH1B

SpecClassifier == InitClassifier /\ [][NextClassifier]_vars

\* a posting-date text awaits the recency filter, at some current time
InitRecency ==
    /\ posting_date_text \in PostingDateTexts
    /\ current_time \in Nows
    /\ within_24_hours = FALSE
    /\ date_pc = "start"
    /\ earlier_result = FALSE
    /\ OutsideDateIdle

\* self.is_within_24_hours(posting_date)
CallIsWithin24Hours ==
    /\ date_pc = "start"
    /\ within_24_hours' = is_within_24_hours(posting_date_text, current_time)
    /\ date_pc' = "done"
    /\ UNCHANGED <<posting_date_text, current_time, earlier_result, outside_date>>

NextRecency == CallIsWithin24Hours

SpecRecency == InitRecency /\ [][NextRecency]_vars

\* the clock reads t2 no earlier than it read t1
NotBefore(t2, t1) ==
    LET d2 == toordinal(t2)
        d1 == toordinal(t1)
    IN  d2 > d1 \/ (d2 = d1 /\ t2.second >= t1.second)

\* self.is_within_24_hours(posting_date) once more on the same text, when
\* datetime.now() has moved on
CallAgainLater ==
    /\ date_pc = "done"
    /\ \E now \in Nows :
          /\ NotBefore(now, current_time)
          /\ current_time' = now
          /\ within_24_hours' = is_within_24_hours(posting_date_text, now)
    /\ earlier_result' = within_24_hours
    /\ date_pc' = "again"
    /\ UNCHANGED <<posting_date_text, outside_date>>

NextRecencyAgain == CallIsWithin24Hours \/ CallAgainLater

SpecRecencyAgain == InitRecency /\ [][NextRecencyAgain]_vars

---------------------------------------------------------------------------
(* The scripts build JobRecords *)

\* the classifier fields the static records are given
Hardcoded(keywords_found) ==
    [sponsors_h1b |-> "True", confidence |-> "high",
     keywords_found |-> keywords_found]

\* what a job card or a feed entry says: its title and its description
CardTitles == {
    <<"D","e","v","O","p","s"," ","E","n","g","i","n","e","e","r">>,  \* 'DevOps Engineer'
    <<"S","e","n","i","o","r"," ","S","R","E"," ","(","P","l","a","t","f","o","r","m",")">>,  \* 'Senior SRE (Platform)'
    <<"A","c","c","o","u","n","t","a","n","t">> }  \* 'Accountant'
CardDescriptions == {Recase(mode, t) : mode \in CaseModes, t \in Texts(1)}

\* main of myvisajobs_scraper.py: job_titles[:3] and the salary it asks for
job_titles == <<
    <<"D","e","v","O","p","s"," ","E","n","g","i","n","e","e","r">>,  \* 'DevOps Engineer'
    <<"S","i","t","e"," ","R","e","l","i","a","b","i","l","i","t","y"," ","E","n","g","i","n","e","e","r">>,  \* 'Site Reliability Engineer'
    <<"I","n","f","r","a","s","t","r","u","c","t","u","r","e"," ","E","n","g","i","n","e","e","r">> >>  \* 'Infrastructure Engineer'
main_min_salary == 80000

\* the rows a live employer table can hold besides the known sponsors
TableEmployers ==
    { [company |-> <<"I","n","i","t","e","c","h"," ","L","L","C">>, h1b_count |-> <<>>,
       avg_salary |-> <<"$","9","0",",","0","0","0">>,  \* '$90,000'
       job_search_url |->
           generate_job_search_url(<<"I","n","i","t","e","c","h"," ","L","L","C">>, job_titles[1])],
      [company |-> <<"H","o","o","l","i"," ","I","n","c">>, h1b_count |-> <<" ","1",",","0","0","1"," ">>,
       avg_salary |-> <<"9","5","0","0","0">>,  \* '95000'
       job_search_url |->
           generate_job_search_url(<<"H","o","o","l","i"," ","I","n","c">>, job_titles[1])] }

\* scrape_indeed: a card that passed is_target_role is classified and kept
ScrapeIndeedJob ==
    /\ rec_pc = "start"
    /\ \E title \in CardTitles, description \in CardDescriptions :
          /\ is_target_role(title, description)
          /\ job_data' = JobRecord(title, <<"U","n","k","n","o","w","n">>, description,
                                   check_h1b_sponsorship(description))
    /\ rec_pc' = "scrape_indeed"
    /\ UNCHANGED outside_rec

\* search_rss_feeds, search_ziprecruiter, search_dice: the same, with the
\* classifier of AlternativeH1BJobParser
AlternativeSourceJob ==
    /\ rec_pc = "start"
    /\ \E title \in CardTitles, description \in CardDescriptions :
          /\ alt_is_target_role(title, description)
          /\ job_data' = JobRecord(title, <<"U","n","k","n","o","w","n">>, description,
                                   alt_check_h1b_sponsorship(description))
    /\ rec_pc' = "search_dice"
    /\ UNCHANGED outside_rec

\* search_company_jobs: an element of the career page names a target role
SearchCompanyJob ==
    /\ rec_pc = "start"
    /\ \E k \in DOMAIN h1b_companies, title \in CardTitles :
          /\ AnyIn(target_keywords, lower(title))
          /\ job_data' = JobRecord(Prefix(title, 100), h1b_companies[k],
                                   career_page_description(h1b_companies[k]),
                                   Hardcoded(<< <<"k","n","o","w","n"," ","h","1","b"," ","s","p","o","n","s","o","r">> >>))
    /\ rec_pc' = "search_company_jobs"
    /\ UNCHANGED outside_rec

\* create_manual_verification_jobs: common_roles[:2] of a company
CreateManualVerificationJob ==
    /\ rec_pc = "start"
    /\ \E k \in DOMAIN h1b_companies, r \in 1..2 :
          LET company == h1b_companies[k]
              role == common_roles[r]
          IN  job_data' = JobRecord(role \o <<" ","-"," ">> \o company, company,
                              manual_verification_description(company, role),
                              Hardcoded(<< <<"k","n","o","w","n"," ","h","1","b"," ","s","p","o","n","s","o","r">>,  \* 'known h1b sponsor'
                                           <<"m","a","n","u","a","l"," ","v","e","r","i","f","i","c","a","t","i","o","n"," ","n","e","e","d","e","d">> >>))
    /\ rec_pc' = "create_manual_verification_jobs"
    /\ UNCHANGED outside_rec

\* search_h1b_database_companies: additional_companies[:5]
SearchH1BDatabaseCompany ==
    /\ rec_pc = "start"
    /\ \E k \in 1..5 :
          LET company == additional_companies[k]
          IN  job_data' = JobRecord(<<"D","e","v","O","p","s","/","S","R","E"," ","O","p","p","o","r","t","u","n","i","t","i","e","s"," ","-"," ">> \o company,
                              company, database_description(company),
                              Hardcoded(<< <<"c","o","n","f","i","r","m","e","d"," ","h","1","b"," ","s","p","o","n","s","o","r">>,  \* 'confirmed h1b sponsor'
                                           <<"h","i","s","t","o","r","i","c","a","l"," ","d","a","t","a">> >>))
    /\ rec_pc' = "search_h1b_database_companies"
    /\ UNCHANGED outside_rec

\* get_manual_search_guide
GetManualSearchGuide ==
    /\ rec_pc = "start"
    /\ job_data' = JobRecord(<<"M","A","N","U","A","L"," ","H","1","B"," ","J","O","B"," ","S","E","A","R","C","H"," ","G","U","I","D","E">>,  \* 'MANUAL H1B JOB SEARCH GUIDE'
                             <<"M","u","l","t","i","p","l","e"," ","C","o","m","p","a","n","i","e","s">>, guide_description,
                             Hardcoded(<< <<"m","a","n","u","a","l"," ","s","e","a","r","c","h"," ","g","u","i","d","e">> >>))
    /\ rec_pc' = "get_manual_search_guide"
    /\ UNCHANGED outside_rec

\* create_job_entries: the entry of one employer search_h1b_employers returned
CreateJobEntry ==
    /\ rec_pc = "start"
    /\ \E t \in DOMAIN job_titles :
          LET job_title == job_titles[t]
              known == get_fallback_employer_list(job_title, main_min_salary)
          IN  \E employer \in {known[i] : i \in DOMAIN known} \cup TableEmployers :
                job_data' = JobRecord(job_title \o <<" ","-"," ">> \o company_name(employer),
                                company_name(employer),
                                job_entry_description(employer, job_title),
                                Hardcoded(<< <<"c","o","n","f","i","r","m","e","d"," ","h","1","b"," ","s","p","o","n","s","o","r">> >>))
    /\ rec_pc' = "create_job_entries"
    /\ UNCHANGED outside_rec

\* a script starts with no record built
InitRecords ==
    /\ job_data = NoJob
    /\ rec_pc = "start"
    /\ OutsideRecIdle

NextRecords ==
    \/ ScrapeIndeedJob
    \/ AlternativeSourceJob
    \/ SearchCompanyJob
    \/ CreateManualVerificationJob
    \/ SearchH1BDatabaseCompany
    \/ GetManualSearchGuide
    \/ CreateJobEntry

SpecRecords == InitRecords /\ [][NextRecords]_vars

---------------------------------------------------------------------------
(* save_results: the CSV and the JSON export *)

MaxJobs == 2

\* Python values of the fields of a record
Str(text) == [type |-> "str", value |-> text]
Bool(b) == [type |-> "bool", value |-> b]
None == [type |-> "NoneType", value |-> <<>>]
List(items) == [type |-> "list", value |-> items]

\* a == b of two Python values
SameValue(a, b) == a.type = b.type /\ a.value = b.value

\* a dict is the sequence of its items, <<key, value>>, in insertion order
keys(dict) == [i \in DOMAIN dict |-> dict[i][1]]
HasKey(dict, key) == \E i \in DOMAIN dict : dict[i][1] = key
Item(dict, key) == dict[CHOOSE i \in DOMAIN dict : dict[i][1] = key][2]

\* repr() of a str without a backslash
repr(text) ==
    IF IsIn("'", text) /\ ~ IsIn("\"", text)
    THEN Quote \o text \o Quote
    ELSE <<"'">> \o replace(text, <<"'">>, <<"\\", "'">>) \o <<"'">>

\* ', '.join(repr(item) for item in items)
RECURSIVE join_repr(_)
join_repr(items) ==
    IF items = <<>> THEN <<>>
    ELSE IF Len(items) = 1 THEN repr(items[1])
    ELSE repr(items[1]) \o <<","," ">> \o join_repr(Tail(items))

\* the cell csv.writer writes for a value: '' for None, str(value) otherwise
csv_cell(v) ==
    CASE v.type = "str" -> v.value
      [] v.type = "bool" -> IF v.value THEN <<"T","r","u","e">> ELSE <<"F","a","l","s","e">>
      [] v.type = "NoneType" -> <<>>
      [] v.type = "list" -> <<"[">> \o join_repr(v.value) \o <<"]">>

\* csv.DictWriter: the row of a record, a missing key giving ''
DictRow(fieldnames, job) ==
    [k \in DOMAIN fieldnames |->
        IF HasKey(job, fieldnames[k]) THEN csv_cell(Item(job, fieldnames[k]))
        ELSE <<>>]

\* writer.writerows(jobs) with the rows in the reverse order
writerows_reversed(fieldnames, job_list) ==
    [i \in DOMAIN job_list |->
        DictRow(fieldnames, job_list[Len(job_list) + 1 - i])]

\* writer.writerows(jobs)
writerows(fieldnames, job_list) ==
    [i \in DOMAIN job_list |-> DictRow(fieldnames, job_list[i])]

\* the CSV file after writeheader() and writerows(jobs); empty for no jobs
write_csv(job_list) ==
    IF job_list # <<>>
    THEN [exists |-> TRUE, header |-> keys(job_list[1]),
          rows |-> writerows(keys(job_list[1]), job_list)]
    ELSE [exists |-> TRUE, header |-> <<>>, rows |-> <<>>]

\* list(csv.DictReader(csvfile)): every value is a str
read_csv(file) ==
    [i \in DOMAIN file.rows |->
        [k \in DOMAIN file.header |-> <<file.header[k], Str(file.rows[i][k])>>]]

\* json.dump of a value: a string, true, false, null or an array of strings
to_json(v) ==
    CASE v.type = "str" -> [kind |-> "string", value |-> v.value]
      [] v.type = "bool" -> [kind |-> IF v.value THEN "true" ELSE "false",
                             value |-> <<>>]
      [] v.type = "NoneType" -> [kind |-> "null", value |-> <<>>]
      [] v.type = "list" -> [kind |-> "array", value |-> v.value]

\* json.load of a value
from_json(j) ==
    CASE j.kind = "string" -> Str(j.value)
      [] j.kind = "true" -> Bool(TRUE)
      [] j.kind = "false" -> Bool(FALSE)
      [] j.kind = "null" -> None
      [] j.kind = "array" -> List(j.value)

\* json.dump(jobs, jsonfile): the objects in list order, keys in dict order
write_json(job_list) ==
    [exists |-> TRUE,
     records |-> [i \in DOMAIN job_list |->
                    [k \in DOMAIN job_list[i] |->
                        <<job_list[i][k][1], to_json(job_list[i][k][2])>>]]]

\* json.load(jsonfile)
read_json(file) ==
    [i \in DOMAIN file.records |->
        [k \in DOMAIN file.records[i] |->
            <<file.records[i][k][1], from_json(file.records[i][k][2])>>]]

\* the dict of a record and of what check_h1b_sponsorship returned for it
JobDict(title, description, info) ==
    << <<"title", Str(title)>>,
       <<"company", Str(<<"A","c","m","e">>)>>,
       <<"location", Str(<<"A","u","s","t","i","n",","," ","T","X">>)>>,
       <<"description", Str(description)>>,
       <<"url", Str(<<>>)>>,
       <<"source", Str(<<"I","n","d","e","e","d">>)>>,
       <<"posting_date", Str(<<"T","o","d","a","y">>)>>,
       <<"scraped_date", Str(<<"2","0","2","4","-","0","3","-","0","1","T","0","0",":","0","0",":","0","0">>)>>,
       <<"sponsors_h1b",
         IF info.sponsors_h1b = "None" THEN None
         ELSE Bool(info.sponsors_h1b = "True")>>,
       <<"confidence", Str(
            CASE info.confidence = "high" -> <<"h","i","g","h">>  \* 'high'
              [] info.confidence = "medium" -> <<"m","e","d","i","u","m">>  \* 'medium'
              [] info.confidence = "unknown" -> <<"u","n","k","n","o","w","n">>)>>,
       <<"keywords_found", List(info.keywords_found)>> >>

\* descriptions of each class of the classifier
SavedDescriptions == {
    <<"D","e","v","O","p","s"," ","r","o","l","e",","," ","h","1","b"," ","v","i","s","a"," ","s","p","o","n","s","o","r","s","h","i","p">>,  \* 'DevOps role, h1b visa sponsorship'
    <<"S","R","E",","," ","o","p","t"," ","w","e","l","c","o","m","e">>,  \* 'SRE, opt welcome'
    <<"D","e","v","O","p","s",":"," ","n","o"," ","s","p","o","n","s","o","r","s","h","i","p">>,  \* 'DevOps: no sponsorship'
    <<"P","l","a","t","f","o","r","m"," ","e","n","g","i","n","e","e","r">> }  \* 'Platform engineer'

SavedJobs ==
    {JobDict(<<"D","e","v","O","p","s"," ","E","n","g","i","n","e","e","r">>, d, check_h1b_sponsorship(d)) :
        d \in SavedDescriptions}
    \cup {JobDict(<<"S","R","E">>, d, check_h1b_sponsorship(d)) : d \in SavedDescriptions}

RECURSIVE JobLists(_)
JobLists(n) ==
    IF n = 0 THEN {<<>>}
    ELSE JobLists(n - 1)
         \cup {Append(l, j) : l \in {x \in JobLists(n - 1) : Len(x) = n - 1},
                              j \in SavedJobs}

\* a list of records awaits the export
InitSave ==
    /\ jobs \in JobLists(MaxJobs)
    /\ csv_file = NoCsv
    /\ json_file = NoJson
    /\ save_pc = "start"
    /\ OutsideSaveIdle

\* H1BJobParser.save_results(jobs)
SaveResults ==
    /\ save_pc = "start"
    /\ csv_file' = write_csv(jobs)
    /\ json_file' = write_json(jobs)
    /\ save_pc' = "H1BJobParser"
    /\ UNCHANGED <<jobs, outside_save>>

\* AlternativeH1BJobParser.save_results(jobs)
AltSaveResults ==
    /\ save_pc = "start"
    /\ csv_file' = write_csv(jobs)
    /\ json_file' = write_json(jobs)
    /\ save_pc' = "AlternativeH1BJobParser"
    /\ UNCHANGED <<jobs, outside_save>>

\* MyVisaJobsScraper.save_results(jobs): returns at once when there are no jobs
MyVisaJobsSaveResults ==
    /\ save_pc = "start"
    /\ IF jobs = <<>>
       THEN UNCHANGED <<csv_file, json_file>>
       ELSE /\ csv_file' = write_csv(jobs)
            /\ json_file' = write_json(jobs)
    /\ save_pc' = "MyVisaJobsScraper"
    /\ UNCHANGED <<jobs, outside_save>>

\* SimpleH1BJobParser.save_results(jobs): returns at once when there are no jobs
SimpleSaveResults ==
    /\ save_pc = "start"
    /\ IF jobs = <<>>
       THEN UNCHANGED <<csv_file, json_file>>
       ELSE /\ csv_file' = write_csv(jobs)
            /\ json_file' = write_json(jobs)
    /\ save_pc' = "SimpleH1BJobParser"
    /\ UNCHANGED <<jobs, outside_save>>

NextSave ==
    \/ SaveResults
    \/ AltSaveResults
    \/ MyVisaJobsSaveResults
    \/ SimpleSaveResults

SpecSave == InitSave /\ [][NextSave]_vars

---------------------------------------------------------------------------
(* The page loops of scrape_indeed, search_ziprecruiter and search_dice *)

MaxPages == 3
MaxCards == 2

\* what session.get meets: a response with a status, or an exception of
\* requests (a timeout, a refused connection) whose message may hold '403'
Response(status) == [kind |-> "response", status |-> status, has403 |-> FALSE]
RequestException(has403) == [kind |-> "exception", status |-> 0, has403 |-> has403]
Answers == {Response(s) : s \in {200, 403, 404, 500}}
           \cup {RequestException(b) : b \in BOOLEAN}

\* response.raise_for_status() raises
raise_for_status(answer) == answer.kind = "response" /\ answer.status >= 400

\* "403" in str(e), for the HTTPError of raise_for_status ('403 Client Error
\* ...') and for an exception of session.get
error_has_403(answer) ==
    IF answer.kind = "response" THEN answer.status = 403 ELSE answer.has403

\* scrape_indeed with no break: a request error is only printed
scrape_indeed_breaks_never(answer) ==
    FALSE /\ answer.kind = "exception"

\* scrape_indeed leaves the page loop: a request error whose text holds '403'
scrape_indeed_breaks(answer) ==
    (answer.kind = "exception" \/ raise_for_status(answer))
        /\ error_has_403(answer)

\* search_ziprecruiter and search_dice leave the page loop: status 403, or an
\* exception whose text holds '403'
search_breaks(answer) ==
    \/ answer.kind = "response" /\ answer.status = 403
    \/ (answer.kind = "exception" \/ raise_for_status(answer))
          /\ error_has_403(answer)

\* the page after a request: range(max_pages) moves on, whatever the answer
next_page_retry(current, answer) ==
    IF answer.kind = "response" /\ answer.status = 200 THEN current + 1
    ELSE current

next_page(current, answer) == current + 1

\* the jobs kept from the cards of a page
PageJobs(current, cards) == [c \in 1..cards |-> <<current, c>>]

\* one pass of the loop body: the GET of the page, its cards when the answer
\* is good, the break or the next page
LoopBody(breaks) ==
    /\ scrape_pc = "loop"
    /\ page < max_pages
    /\ \E answer \in Answers, cards \in 0..MaxCards :
          LET good == answer.kind = "response" /\ ~ raise_for_status(answer)
              kept == IF good THEN cards ELSE 0
          IN  /\ cards > 0 => good
              /\ gets' = Append(gets, [page |-> page, answer |-> answer,
                                       kept |-> kept])
              /\ scraped' = scraped \o PageJobs(page, kept)
              /\ IF breaks[answer]
                 THEN scrape_pc' = "returned" /\ page' = page
                 ELSE scrape_pc' = "loop" /\ page' = next_page(page, answer)
    /\ UNCHANGED <<scraper, max_pages, outside_scrape>>

\* H1BJobParser.scrape_indeed, one page
ScrapeIndeedPage ==
    /\ scraper = "scrape_indeed"
    /\ LoopBody([a \in Answers |-> scrape_indeed_breaks(a)])

\* AlternativeH1BJobParser.search_ziprecruiter, one page
SearchZipRecruiterPage ==
    /\ scraper = "search_ziprecruiter"
    /\ LoopBody([a \in Answers |-> search_breaks(a)])

\* AlternativeH1BJobParser.search_dice, one page
SearchDicePage ==
    /\ scraper = "search_dice"
    /\ LoopBody([a \in Answers |-> search_breaks(a)])

\* the loop has run through range(max_pages): return jobs
ReturnJobs ==
    /\ scrape_pc = "loop"
    /\ page >= max_pages
    /\ scrape_pc' = "returned"
    /\ UNCHANGED <<scraper, max_pages, page, gets, scraped, outside_scrape>>

\* a page loop is called
InitPages ==
    /\ scraper \in {"scrape_indeed", "search_ziprecruiter", "search_dice"}
    /\ max_pages \in 1..MaxPages
    /\ page = 0
    /\ gets = <<>>
    /\ scraped = <<>>
    /\ scrape_pc = "loop"
    /\ OutsideScrapeIdle

NextPages ==
    \/ ScrapeIndeedPage
    \/ SearchZipRecruiterPage
    \/ SearchDicePage
    \/ ReturnJobs

SpecPages == InitPages /\ [][NextPages]_vars


\* ---------------------------------------------------------------------------
\* MyVisaJobsScraper.search_h1b_employers: the live employer table and the
\* fallback list
\* ---------------------------------------------------------------------------
MaxRows == 2
RowLimit == 50

\* what the GET of the sponsor report meets: a response with its status and
\* its table.tbl elements, a requests exception, or any other exception
SiteResponse(status, tables) ==
    [kind |-> "response", status |-> status, tables |-> tables]
SiteRaises(kind) == [kind |-> kind, status |-> 0, tables |-> <<>>]

\* the cells of one table row: rank, employer, number of H1Bs, average salary
TableRows == {
    << <<"1">>, <<" ","I","n","i","t","e","c","h"," ","L","L","C"," ">>, <<"1","2">>, <<"$","9","0",",","0","0","0">> >>,
    << <<"2">>, <<"H","o","o","l","i"," ","I","n","c">>, <<"1",",","0","0","1">>, <<" ","$","7","0",",","0","0","0">> >>,
    << <<"3">>, <<"P","i","e","d"," ","P","i","p","e","r">>, <<"3">>, <<>> >>,
    << <<"V","a","n","d","e","l","a","y"," ","I","n","d","u","s","t","r","i","e","s">>, <<"7">> >> }
HeaderRow == << <<"R","a","n","k">>, <<"E","m","p","l","o","y","e","r">>, <<"H","1","B">>, <<"S","a","l","a","r","y">> >>

RECURSIVE RowLists(_)
RowLists(n) ==
    IF n = 0 THEN { <<>> }
    ELSE RowLists(n - 1)
         \cup { Append(rows, row) : rows \in RowLists(n - 1), row \in TableRows }

Sites ==
    { SiteRaises(kind) : kind \in {"exception", "error"} }
    \cup { SiteResponse(status, <<>>) : status \in {200, 403, 404, 500} }
    \cup { SiteResponse(200, << <<HeaderRow>> \o rows >>) : rows \in RowLists(MaxRows) }

min_salaries == {80000, 100000, 150000}

\* re.sub(r'[^\d]', '', avg_salary) and int() of what is left, 0 when nothing is
salary_num(avg_salary) ==
    LET salary_clean == SelectSeq(avg_salary, IsDigit)
    IN  IF avg_salary # <<>> /\ salary_clean # <<>> THEN int(salary_clean) ELSE 0

\* the employers read from the rows of the first table, header skipped
RECURSIVE table_employers(_, _, _)
table_employers(rows, job_title, min_salary) ==
    IF rows = <<>> THEN <<>>
    ELSE LET cells == rows[1]
             rest == table_employers(Tail(rows), job_title, min_salary)
         IN  IF Len(cells) >= 4 /\ salary_num(strip(cells[4])) >= min_salary
             THEN << [company |-> strip(cells[2]),
                      h1b_count |-> strip(cells[3]),
                      avg_salary |-> strip(cells[4]),
                      job_search_url |->
                          generate_job_search_url(strip(cells[2]), job_title)] >>
                  \o rest
             ELSE rest

\* MyVisaJobsScraper.search_h1b_employers
search_h1b_employers(job_title, min_salary, answer) ==
    IF answer.kind # "response"
    THEN get_fallback_employer_list(job_title, min_salary)
    ELSE IF answer.status # 200
    THEN get_fallback_employer_list(job_title, min_salary)
    ELSE IF answer.tables = <<>>
    THEN get_fallback_employer_list(job_title, min_salary)
    ELSE table_employers(Prefix(Tail(answer.tables[1]), RowLimit),
                         job_title, min_salary)

CallSearchH1BEmployers ==
    /\ emp_pc = "start"
    /\ employers' = search_h1b_employers(query.job_title, query.min_salary, site)
    /\ emp_pc' = "returned"
    /\ UNCHANGED <<query, site, outside_emp>>

InitEmployers ==
    /\ query \in [job_title : {job_titles[i] : i \in DOMAIN job_titles},
                  min_salary : min_salaries]
    /\ site \in Sites
    /\ employers = <<>>
    /\ emp_pc = "start"
    /\ OutsideEmpIdle

NextEmployers == CallSearchH1BEmployers

SpecEmployers == InitEmployers /\ [][NextEmployers]_vars

\* ---------------------------------------------------------------------------
\* main of the five scripts, every request of one run meeting the same answer
\* ---------------------------------------------------------------------------
Scripts == {"h1b_job_parser", "h1b_alternative_parser", "myvisajobs_scraper",
            "simple_working_h1b_parser", "enhanced_h1b_parser"}

\* the answer every request of the run meets, and the number of postings
\* (cards, feed entries, table rows, job elements) a good answer holds
Weather(answer, cards) ==
    [kind |-> answer.kind, status |-> answer.status,
     has403 |-> answer.has403, cards |-> cards]
AnswerOf(w) == [kind |-> w.kind, status |-> w.status, has403 |-> w.has403]
Weathers == { Weather(answer, 0) : answer \in Answers }
            \cup { Weather(Response(200), cards) : cards \in 1..MaxCards }

\* every request fails: an exception, 403 or another status that is not 200
Failing(w) == ~ (w.kind = "response" /\ w.status = 200)

\* a record of all_jobs: where it comes from (a live answer or the data
\* written in the script) and its url
Lead(from, url) == [from |-> from, url |-> url]

\* the queries of main of h1b_job_parser.py and of h1b_alternative_parser.py,
\* the feeds of search_rss_feeds, and the pages main asks for
queries == << "DevOps Engineer", "Site Reliability Engineer",
              "Infrastructure Engineer", "Platform Engineer",
              "Cloud Engineer" >>
alt_queries == << "DevOps Engineer", "Site Reliability Engineer",
                  "Infrastructure Engineer" >>
rss_urls == << "devops+engineer", "site+reliability+engineer",
               "infrastructure+engineer", "platform+engineer",
               "cloud+engineer" >>
main_max_pages == 2

\* HonestH1BFinder.h1b_sponsors, the companies of its four categories
h1b_sponsors == <<
    "Microsoft", "Amazon", "Google", "Meta", "Apple",
    "Databricks", "Snowflake", "Stripe", "Coinbase", "Datadog",
    "HashiCorp", "GitLab", "MongoDB", "Elastic", "Confluent",
    "Thoughtworks", "EPAM Systems" >>

\* a whole page loop (scrape_indeed, search_ziprecruiter, search_dice) whose
\* requests all meet the weather
RECURSIVE Scrape(_, _, _, _, _)
Scrape(source, breaks, w, current, pages) ==
    IF current >= pages THEN <<>>
    ELSE LET answer == AnswerOf(w)
             good == answer.kind = "response" /\ ~ raise_for_status(answer)
             kept == IF good THEN w.cards ELSE 0
             page_jobs == [c \in 1..kept |-> Lead("live", <<source, c>>)]
         IN  page_jobs \o (IF breaks[answer] THEN <<>>
                      ELSE Scrape(source, breaks, w,
                                  next_page(current, answer), pages))

\* AlternativeH1BJobParser.search_rss_feeds: the entries of every feed; a
\* feed that cannot be fetched has none
RECURSIVE search_rss_feeds(_, _)
search_rss_feeds(w, feeds) ==
    IF feeds = <<>> THEN <<>>
    ELSE [c \in 1..(IF Failing(w) THEN 0 ELSE w.cards) |->
              Lead("live", <<"rss", c>>)]
         \o search_rss_feeds(w, Tail(feeds))

\* the page of MyVisaJobs under the weather: a good answer holds the table
LiveRows == <<
    << <<"1">>, <<"I","n","i","t","e","c","h"," ","L","L","C">>, <<"1","2">>, <<"$","9","0",",","0","0","0">> >>,
    << <<"2">>, <<"G","l","o","b","e","x"," ","C","o","r","p","o","r","a","t","i","o","n">>, <<"3","4","0">>, <<"$","1","2","0",",","0","0","0">> >> >>
SiteOf(w) ==
    IF w.kind # "response" THEN SiteRaises(w.kind)
    ELSE IF w.status # 200 THEN SiteResponse(w.status, <<>>)
    ELSE SiteResponse(200, << <<HeaderRow>> \o Prefix(LiveRows, w.cards) >>)

\* create_job_entries(search_h1b_employers(job_title, 80000), job_title): one
\* record for each employer
sponsor_leads(job_title, w) ==
    LET found == search_h1b_employers(job_title, main_min_salary, SiteOf(w))
    IN  [i \in DOMAIN found |->
            Lead(IF Failing(w) THEN "static" ELSE "live",
                 found[i].job_search_url)]

\* SimpleH1BJobParser.search_company_jobs: the matching elements of the
\* career page, at most five, or else create_manual_verification_jobs
company_leads(i, w) ==
    LET found_jobs == IF Failing(w) THEN 0
                      ELSE IF w.cards < 5 THEN w.cards ELSE 5
    IN  IF found_jobs = 0
        THEN [r \in DOMAIN Prefix(common_roles, 2) |->
                  Lead("static", <<"manual", i, r>>)]
        ELSE [c \in 1..found_jobs |-> Lead("live", <<"careers", i, c>>)]

\* the loop of main in h1b_job_parser.py that keeps an empty url apart
RECURSIVE unique_jobs_empty_url_kept(_, _)
unique_jobs_empty_url_kept(found, seen_urls) ==
    IF found = <<>> THEN <<>>
    ELSE IF Head(found).url # <<>> /\ Head(found).url \in seen_urls
         THEN unique_jobs_empty_url_kept(Tail(found), seen_urls)
         ELSE <<Head(found)>>
              \o unique_jobs_empty_url_kept(Tail(found),
                      seen_urls \cup {Head(found).url})

\* the loop of main that drops a record whose url was seen before
RECURSIVE unique_jobs(_, _)
unique_jobs(found, seen_urls) ==
    IF found = <<>> THEN <<>>
    ELSE IF Head(found).url \in seen_urls
         THEN unique_jobs(Tail(found), seen_urls)
         ELSE <<Head(found)>>
              \o unique_jobs(Tail(found), seen_urls \cup {Head(found).url})

\* main extends all_jobs by the result of one search
Extend(found) ==
    /\ main_pc = "running"
    /\ all_jobs' = all_jobs \o found
    /\ step' = step + 1
    /\ UNCHANGED <<script, weather, written, main_pc, outside_main>>

\* main writes its records, when it has any, and ends
Finish(found) ==
    /\ main_pc = "running"
    /\ written' = found
    /\ main_pc' = "completed"
    /\ UNCHANGED <<script, weather, step, all_jobs, outside_main>>

\* h1b_job_parser.py, main: one query
JobParserSearch ==
    /\ script = "h1b_job_parser"
    /\ step < Len(queries)
    /\ Extend(Scrape("indeed", [a \in Answers |-> scrape_indeed_breaks(a)],
                     weather, 0, main_max_pages))

\* h1b_job_parser.py, main: duplicates out, save_results if any job is left
JobParserFinish ==
    /\ script = "h1b_job_parser"
    /\ step = Len(queries)
    /\ Finish(unique_jobs(all_jobs, {}))

\* h1b_alternative_parser.py, main: the feeds
AlternativeRss ==
    /\ script = "h1b_alternative_parser"
    /\ step = 0
    /\ Extend(search_rss_feeds(weather, rss_urls))

\* h1b_alternative_parser.py, main: one query on ZipRecruiter and on Dice
AlternativeSearch ==
    /\ script = "h1b_alternative_parser"
    /\ step \in 1..Len(alt_queries)
    /\ LET breaks == [a \in Answers |-> search_breaks(a)]
       IN  Extend(Scrape("ziprecruiter", breaks, weather, 0, main_max_pages)
                  \o Scrape("dice", breaks, weather, 0, main_max_pages))

\* h1b_alternative_parser.py, main: duplicates out (every record here has a
\* url), save_results if any job is left
AlternativeFinish ==
    /\ script = "h1b_alternative_parser"
    /\ step = Len(alt_queries) + 1
    /\ Finish(unique_jobs(all_jobs, {}))

\* myvisajobs_scraper.py, main: one job title
MyVisaJobsSearch ==
    /\ script = "myvisajobs_scraper"
    /\ step < Len(job_titles)
    /\ Extend(sponsor_leads(job_titles[step + 1], weather))

\* myvisajobs_scraper.py, main: save_results if all_jobs
MyVisaJobsFinish ==
    /\ script = "myvisajobs_scraper"
    /\ step = Len(job_titles)
    /\ Finish(all_jobs)

\* simple_working_h1b_parser.py, main: one company of h1b_companies
SimpleCompany ==
    /\ script = "simple_working_h1b_parser"
    /\ step < Len(h1b_companies)
    /\ Extend(company_leads(step + 1, weather))

\* simple_working_h1b_parser.py, main: search_h1b_database_companies
SimpleDatabase ==
    /\ script = "simple_working_h1b_parser"
    /\ step = Len(h1b_companies)
    /\ Extend([k \in DOMAIN Prefix(additional_companies, 5) |->
                  Lead("static", <<"database", k>>)])

\* simple_working_h1b_parser.py, main: get_manual_search_guide
SimpleGuide ==
    /\ script = "simple_working_h1b_parser"
    /\ step = Len(h1b_companies) + 1
    /\ Extend(<< Lead("static", <<"guide", 1>>) >>)

\* simple_working_h1b_parser.py, main: save_results if all_jobs
SimpleFinish ==
    /\ script = "simple_working_h1b_parser"
    /\ step = Len(h1b_companies) + 2
    /\ Finish(all_jobs)

\* enhanced_h1b_parser.py, main: save_results() writes get_h1b_sponsors(); no
\* request is made
EnhancedMain ==
    /\ script = "enhanced_h1b_parser"
    /\ Finish([i \in DOMAIN h1b_sponsors |-> Lead("static", <<"sponsor", i>>)])

InitMain ==
    /\ script \in Scripts
    /\ weather \in Weathers
    /\ step = 0
    /\ all_jobs = <<>>
    /\ written = <<>>
    /\ main_pc = "running"
    /\ OutsideMainIdle

NextMain ==
    \/ JobParserSearch
    \/ JobParserFinish
    \/ AlternativeRss
    \/ AlternativeSearch
    \/ AlternativeFinish
    \/ MyVisaJobsSearch
    \/ MyVisaJobsFinish
    \/ SimpleCompany
    \/ SimpleDatabase
    \/ SimpleGuide
    \/ SimpleFinish
    \/ EnhancedMain

SpecMain == InitMain /\ [][NextMain]_vars

\* ---------------------------------------------------------------------------
\* The time.sleep calls and the requests of a run of main, in order
\* ---------------------------------------------------------------------------
Position(phase, search, current) ==
    [phase |-> phase, search |-> search, page |-> current]

\* where main of each script starts
FirstPosition(name) ==
    CASE name = "h1b_job_parser" -> Position("indeed", 1, 0)
      [] name = "h1b_alternative_parser" -> Position("rss", 1, 0)
      [] name = "myvisajobs_scraper" -> Position("employers", 1, 0)
      [] name = "simple_working_h1b_parser" -> Position("careers", 1, 0)
      [] OTHER -> Position("done", 0, 0)

\* one pass of a page loop: time.sleep(random.uniform(..)), then session.get;
\* stop is the break on 403
PagePass(stop) ==
    [calls |-> << "sleep", "get" >>,
     last |-> stop \/ position.page + 1 >= main_max_pages]

\* h1b_job_parser.py: one page of scrape_indeed; after the last page of a
\* query that is not queries[-1], main sleeps 10 seconds
IndeedPass ==
    /\ calls_pc = "running"
    /\ position.phase = "indeed"
    /\ \E stop \in BOOLEAN :
          LET pass == PagePass(stop)
              more == position.search < Len(queries)
          IN  /\ calls' = calls \o pass.calls
                    \o (IF pass.last /\ more THEN << "sleep" >> ELSE <<>>)
              /\ position' =
                    IF ~ pass.last
                    THEN Position("indeed", position.search, position.page + 1)
                    ELSE IF more THEN Position("indeed", position.search + 1, 0)
                    ELSE Position("done", 0, 0)
    /\ UNCHANGED <<caller, calls_pc, outside_calls>>

\* h1b_alternative_parser.py: one feed of search_rss_feeds: feedparser.parse,
\* the entries, then time.sleep unless an exception left the try block
RssFetch ==
    /\ calls_pc = "running"
    /\ position.phase = "rss"
    /\ \E raised \in BOOLEAN :
          calls' = calls \o << "get" >>
                   \o (IF raised THEN <<>> ELSE << "sleep" >>)
    /\ position' = IF position.search < Len(rss_urls)
                   THEN Position("rss", position.search + 1, 0)
                   ELSE Position("ziprecruiter", 1, 0)
    /\ UNCHANGED <<caller, calls_pc, outside_calls>>

\* h1b_alternative_parser.py: one page of search_ziprecruiter
ZipRecruiterPass ==
    /\ calls_pc = "running"
    /\ position.phase = "ziprecruiter"
    /\ \E stop \in BOOLEAN :
          LET pass == PagePass(stop)
          IN  /\ calls' = calls \o pass.calls
              /\ position' =
                    IF ~ pass.last
                    THEN Position("ziprecruiter", position.search,
                                  position.page + 1)
                    ELSE Position("dice", position.search, 0)
    /\ UNCHANGED <<caller, calls_pc, outside_calls>>

\* h1b_alternative_parser.py: one page of search_dice; after the last page of
\* a query that is not queries[-1], main sleeps
DicePass ==
    /\ calls_pc = "running"
    /\ position.phase = "dice"
    /\ \E stop \in BOOLEAN :
          LET pass == PagePass(stop)
              more == position.search < Len(alt_queries)
          IN  /\ calls' = calls \o pass.calls
                    \o (IF pass.last /\ more THEN << "sleep" >> ELSE <<>>)
              /\ position' =
                    IF ~ pass.last
                    THEN Position("dice", position.search, position.page + 1)
                    ELSE IF more
                    THEN Position("ziprecruiter", position.search + 1, 0)
                    ELSE Position("done", 0, 0)
    /\ UNCHANGED <<caller, calls_pc, outside_calls>>

\* myvisajobs_scraper.py: search_h1b_employers makes its GET, then main
\* sleeps 2 seconds (job_title is never job_titles[-1], the sixth title)
EmployersSearch ==
    /\ calls_pc = "running"
    /\ position.phase = "employers"
    /\ calls' = calls \o << "get", "sleep" >>
    /\ position' = IF position.search < Len(job_titles)
                   THEN Position("employers", position.search + 1, 0)
                   ELSE Position("done", 0, 0)
    /\ UNCHANGED <<caller, calls_pc, outside_calls>>

\* simple_working_h1b_parser.py: search_company_jobs makes its GET, then main
\* sleeps
CareersSearch ==
    /\ calls_pc = "running"
    /\ position.phase = "careers"
    /\ calls' = calls \o << "get", "sleep" >>
    /\ position' = IF position.search < Len(h1b_companies)
                   THEN Position("careers", position.search + 1, 0)
                   ELSE Position("done", 0, 0)
    /\ UNCHANGED <<caller, calls_pc, outside_calls>>

\* main has made its last search and goes on to its report
SearchesDone ==
    /\ calls_pc = "running"
    /\ position.phase = "done"
    /\ calls_pc' = "completed"
    /\ UNCHANGED <<caller, calls, position, outside_calls>>

InitCalls ==
    /\ caller \in Scripts
    /\ calls = <<>>
    /\ position = FirstPosition(caller)
    /\ calls_pc = "running"
    /\ OutsideCallsIdle

NextCalls ==
    \/ IndeedPass
    \/ RssFetch
    \/ ZipRecruiterPass
    \/ DicePass
    \/ EmployersSearch
    \/ CareersSearch
    \/ SearchesDone

SpecCalls == InitCalls /\ [][NextCalls]_vars

\* ---------------------------------------------------------------------------
\* The duplicate removal of main in h1b_job_parser.py and in
\* h1b_alternative_parser.py
\* ---------------------------------------------------------------------------
MaxAll == 3

\* the fields of a job the duplicate removal reads
Posting(title, company, location, url) ==
    [title |-> title, company |-> company, location |-> location, url |-> url]

Postings == {
    Posting(<<"S","R","E">>, <<"A","c","m","e","-","I","n","c">>, <<"N","Y">>, <<"/","r","c","/","c","l","k","?","j","k","=","1">>),
    Posting(<<"D","e","v","O","p","s">>, <<"A","c","m","e","-","I","n","c">>, <<"N","Y">>, <<"/","r","c","/","c","l","k","?","j","k","=","1">>),
    Posting(<<"S","R","E">>, <<"A","c","m","e","-","I","n","c">>, <<"N","Y">>, <<>>),
    Posting(<<"S","R","E","-","A","c","m","e">>, <<"I","n","c">>, <<"N","Y">>, <<>>),
    Posting(<<"D","e","v","O","p","s">>, <<"G","l","o","b","e","x">>, <<"R","e","m","o","t","e">>, <<>>),
    Posting(<<"C","l","o","u","d">>, <<"G","l","o","b","e","x">>, <<"R","e","m","o","t","e">>, <<"S","R","E","-","A","c","m","e","-","I","n","c","-","N","Y">>) }

RECURSIVE PostingLists(_)
PostingLists(n) ==
    IF n = 0 THEN { <<>> }
    ELSE PostingLists(n - 1)
         \cup { Append(found, job) : found \in PostingLists(n - 1),
                                     job \in Postings }

\* f"{job.get('title', '')}-{job.get('company', '')}-{job.get('location', '')}"
job_signature(job) ==
    job.title \o <<"-">> \o job.company \o <<"-">> \o job.location

\* the loop of main in h1b_alternative_parser.py: a url seen before drops the
\* job; a job with no url is dropped when its signature was seen before
RECURSIVE alt_unique_jobs(_, _)
alt_unique_jobs(found, seen_urls) ==
    IF found = <<>> THEN <<>>
    ELSE LET job == Head(found)
             url == job.url
         IN  IF url # <<>> /\ url \notin seen_urls
             THEN <<job>> \o alt_unique_jobs(Tail(found), seen_urls \cup {url})
             ELSE IF url = <<>> /\ job_signature(job) \notin seen_urls
             THEN <<job>> \o alt_unique_jobs(Tail(found),
                                 seen_urls \cup {job_signature(job)})
             ELSE alt_unique_jobs(Tail(found), seen_urls)

\* h1b_job_parser.py, main: "Remove duplicates based on URL"
JobParserDedup ==
    /\ dedup_pc = "start"
    /\ unique' = unique_jobs(collected, {})
    /\ dedup_pc' = "h1b_job_parser"
    /\ UNCHANGED <<collected, outside_dedup>>

\* h1b_alternative_parser.py, main: "Remove duplicates"
AlternativeDedup ==
    /\ dedup_pc = "start"
    /\ unique' = alt_unique_jobs(collected, {})
    /\ dedup_pc' = "h1b_alternative_parser"
    /\ UNCHANGED <<collected, outside_dedup>>

InitDedup ==
    /\ collected \in PostingLists(MaxAll)
    /\ unique = <<>>
    /\ dedup_pc = "start"
    /\ OutsideDedupIdle

NextDedup == JobParserDedup \/ AlternativeDedup

SpecDedup == InitDedup /\ [][NextDedup]_vars

\* ---------------------------------------------------------------------------
\* The job cards of a page: extract_*_job_data and the loop "for card in
\* job_cards" of scrape_indeed, search_ziprecruiter and search_dice
\* ---------------------------------------------------------------------------
MaxSiteCards == 3

\* a job card: an element is <<>> when the card lacks it, else <<its text>>;
\* link is the <a> of the title: "none", "no_href" or "href" with its href;
\* raises: the card makes the parser raise while it is read
Link(kind, href) == [kind |-> kind, href |-> href]
Card(title, date, summary, link, raises) ==
    [title |-> title, date |-> date, summary |-> summary, link |-> link,
     raises |-> raises]

Cards == {
    Card(<< <<"S","e","n","i","o","r"," ","D","e","v","O","p","s"," ","E","n","g","i","n","e","e","r">> >>, << <<" ","J","u","s","t"," ","p","o","s","t","e","d">> >>,
         << <<"H","1","B"," ","v","i","s","a"," ","s","p","o","n","s","o","r","s","h","i","p"," ","a","v","a","i","l","a","b","l","e">> >>,
         Link("href", <<"/","r","c","/","c","l","k","?","j","k","=","1">>), FALSE),
    Card(<< <<"S","R","E">> >>, << <<"3","0","+"," ","d","a","y","s"," ","a","g","o">> >>, << <<"W","i","l","l"," ","s","p","o","n","s","o","r"," ","H","1","B">> >>,
         Link("href", <<"/","r","c","/","c","l","k","?","j","k","=","2">>), FALSE),
    Card(<< <<"P","l","a","t","f","o","r","m"," ","E","n","g","i","n","e","e","r">> >>, << <<"T","o","d","a","y">> >>, <<>>,
         Link("no_href", <<>>), FALSE),
    Card(<< <<"A","c","c","o","u","n","t","a","n","t">> >>, << <<"T","o","d","a","y">> >>, << <<"L","e","d","g","e","r","s">> >>,
         Link("href", <<"h","t","t","p","s",":","/","/","e","x","a","m","p","l","e",".","c","o","m","/","j","o","b","/","4">>), FALSE),
    Card(<<>>, <<>>, << <<"C","l","o","u","d"," ","e","n","g","i","n","e","e","r",","," ","U","S"," ","c","i","t","i","z","e","n"," ","o","n","l","y">> >>,
         Link("none", <<>>), FALSE),
    Card(<< <<"D","e","v","O","p","s"," ","L","e","a","d">> >>, << <<"1"," ","d","a","y"," ","a","g","o">> >>, <<>>,
         Link("href", <<"/","r","c","/","c","l","k","?","j","k","=","6">>), TRUE) }

RECURSIVE CardLists(_)
CardLists(n) ==
    IF n = 0 THEN { <<>> }
    ELSE CardLists(n - 1)
         \cup { Append(cards, card) : cards \in CardLists(n - 1),
                                      card \in Cards }

\* the cards of page p, the cards being spread over main_max_pages pages
PageCards(cards, p) ==
    LET size == (Len(cards) + main_max_pages - 1) \div main_max_pages
        last == IF p * size < Len(cards) THEN p * size ELSE Len(cards)
    IN  SubSeq(cards, (p - 1) * size + 1, last)

\* the time of the scrape, as datetime.now() answers
ScrapeTime == At(2024, 3, 1, 43200)

\* elem.get_text(strip=True) if elem else default
text_or(elem, default) == IF elem = <<>> THEN default ELSE strip(elem[1])

startswith(text, prefix) ==
    Len(text) >= Len(prefix) /\ SubSeq(text, 1, Len(prefix)) = prefix

\* urljoin("https://www.indeed.com", href) for an absolute path or url
urljoin(base, href) == IF startswith(href, <<"h","t","t","p">>) THEN href ELSE base \o href

\* the dict a page loop appends, before the classifier's fields are added
ScrapedJob(title, description, url, posting_date) ==
    [title |-> title, description |-> description, url |-> url,
     posting_date |-> posting_date, sponsors_h1b |-> "unset",
     confidence |-> "unset", keywords_found |-> <<>>]

\* job_data.update(h1b_info)
update(job, info) ==
    [job EXCEPT !.sponsors_h1b = info.sponsors_h1b,
                !.confidence = info.confidence,
                !.keywords_found = info.keywords_found]

\* extract_*_job_data returned None
Rejected == <<>>

\* extract_indeed_job_data that does not test the posting date
extract_indeed_job_data_any_date(card, now) ==
    IF card.raises \/ (card.title # <<>> /\ card.link.kind = "no_href")
    THEN Rejected
    ELSE << ScrapedJob(text_or(card.title, <<"U","n","k","n","o","w","n">>),
                       text_or(card.summary, <<>>),
                       IF card.title # <<>> /\ card.link.kind = "href"
                       THEN urljoin(<<"h","t","t","p","s",":","/","/","w","w","w",".","i","n","d","e","e","d",".","c","o","m">>, card.link.href)
                       ELSE <<>>,
                       text_or(card.date, <<"U","n","k","n","o","w","n">>)) >>

\* H1BJobParser.extract_indeed_job_data: <<the dict>>, or Rejected for None
\* (the posting is not within 24 hours, or an exception: link_elem['href'] of
\* a link without href, or the card itself)
extract_indeed_job_data(card, now) ==
    IF card.raises THEN Rejected
    ELSE LET title == text_or(card.title, <<"U","n","k","n","o","w","n">>)
             posting_date == text_or(card.date, <<"U","n","k","n","o","w","n">>)
             link_elem == IF card.title # <<>> THEN card.link.kind ELSE "none"
         IN  IF ~ is_within_24_hours(posting_date, now) THEN Rejected
             ELSE IF link_elem = "no_href" THEN Rejected
             ELSE << ScrapedJob(title, text_or(card.summary, <<>>),
                                IF link_elem = "href"
                                THEN urljoin(<<"h","t","t","p","s",":","/","/","w","w","w",".","i","n","d","e","e","d",".","c","o","m">>,  \* 'https://www.indeed.com'
                                             card.link.href)
                                ELSE <<>>,
                                posting_date) >>

\* extract_ziprecruiter_job_data and extract_dice_job_data, which differ in
\* the site put before a relative url
extract_alt_job_data(card, site_url) ==
    IF card.raises THEN Rejected
    ELSE LET href == IF card.title # <<>> /\ card.link.kind = "href"
                     THEN card.link.href ELSE <<>>
             job_url == IF href # <<>> /\ ~ startswith(href, <<"h","t","t","p">>)
                        THEN site_url \o href ELSE href
         IN  << ScrapedJob(text_or(card.title, <<"U","n","k","n","o","w","n">>),
                           text_or(card.summary, <<>>), job_url, <<"R","e","c","e","n","t">>) >>

\* the body of "for card in job_cards" of scrape_indeed: what it appends
indeed_card_jobs(card, now) ==
    LET extracted == extract_indeed_job_data(card, now)
    IN  IF extracted # Rejected
           /\ is_target_role(extracted[1].title, extracted[1].description)
        THEN << update(extracted[1],
                       check_h1b_sponsorship(extracted[1].description)) >>
        ELSE <<>>

\* the same of search_ziprecruiter and search_dice
alt_card_jobs(card, site_url) ==
    LET extracted == extract_alt_job_data(card, site_url)
    IN  IF extracted # Rejected
           /\ alt_is_target_role(extracted[1].title, extracted[1].description)
        THEN << update(extracted[1],
                       alt_check_h1b_sponsorship(extracted[1].description)) >>
        ELSE <<>>

\* the loop over the cards that leaves the page at a card it appends nothing for
next_cards_until_dropped(left, appended) ==
    IF appended = <<>> THEN <<>> ELSE Tail(left)

\* "for card in job_cards": the cards left after one card
next_cards(left, appended) == Tail(left)

\* one card of the open page has been handled
HandleCard(appended) ==
    /\ cards_pc = "cards"
    /\ cards_left # <<>>
    /\ loop_jobs' = loop_jobs \o appended
    /\ handled' = Append(handled, Head(cards_left))
    /\ cards_left' = next_cards(cards_left, appended)
    /\ UNCHANGED <<card_source, site_cards, page_no, cards_pc, outside_cards>>

IndeedCard ==
    /\ card_source = "scrape_indeed"
    /\ cards_left # <<>>
    /\ HandleCard(indeed_card_jobs(Head(cards_left), ScrapeTime))

ZipRecruiterCard ==
    /\ card_source = "search_ziprecruiter"
    /\ cards_left # <<>>
    /\ HandleCard(alt_card_jobs(Head(cards_left),
                                <<"h","t","t","p","s",":","/","/","w","w","w",".","z","i","p","r","e","c","r","u","i","t","e","r",".","c","o","m">>))

DiceCard ==
    /\ card_source = "search_dice"
    /\ cards_left # <<>>
    /\ HandleCard(alt_card_jobs(Head(cards_left), <<"h","t","t","p","s",":","/","/","w","w","w",".","d","i","c","e",".","c","o","m">>))

\* the next page is requested and its cards are found
OpenPage ==
    /\ cards_pc = "cards"
    /\ cards_left = <<>>
    /\ page_no < main_max_pages
    /\ page_no' = page_no + 1
    /\ cards_left' = PageCards(site_cards, page_no + 1)
    /\ UNCHANGED <<card_source, site_cards, handled, loop_jobs, cards_pc,
                   outside_cards>>

\* return jobs
ReturnKept ==
    /\ cards_pc = "cards"
    /\ cards_left = <<>>
    /\ page_no >= main_max_pages
    /\ cards_pc' = "returned"
    /\ UNCHANGED <<card_source, site_cards, page_no, cards_left, handled,
                   loop_jobs, outside_cards>>

InitCards ==
    /\ card_source \in {"scrape_indeed", "search_ziprecruiter", "search_dice"}
    /\ site_cards \in CardLists(MaxSiteCards)
    /\ page_no = 0
    /\ cards_left = <<>>
    /\ handled = <<>>
    /\ loop_jobs = <<>>
    /\ cards_pc = "cards"
    /\ OutsideCardsIdle

NextCards ==
    \/ IndeedCard
    \/ ZipRecruiterCard
    \/ DiceCard
    \/ OpenPage
    \/ ReturnKept

SpecCards == InitCards /\ [][NextCards]_vars

\* ---------------------------------------------------------------------------
\* HonestH1BFinder.get_h1b_sponsors of enhanced_h1b_parser.py
\* ---------------------------------------------------------------------------
\* HonestH1BFinder.h1b_sponsors: the categories in order, each company with
\* its career_url
sponsor_catalog == <<
    [category |-> <<"l","a","r","g","e","_","c","o","m","p","a","n","i","e","s">>, companies |-> <<
        [company |-> <<"M","i","c","r","o","s","o","f","t">>,  \* 'Microsoft'
         career_url |-> <<"h","t","t","p","s",":","/","/","c","a","r","e","e","r","s",".","m","i","c","r","o","s","o","f","t",".","c","o","m">>],
        [company |-> <<"A","m","a","z","o","n">>,  \* 'Amazon'
         career_url |-> <<"h","t","t","p","s",":","/","/","w","w","w",".","a","m","a","z","o","n",".","j","o","b","s">>],
        [company |-> <<"G","o","o","g","l","e">>,  \* 'Google'
         career_url |-> <<"h","t","t","p","s",":","/","/","c","a","r","e","e","r","s",".","g","o","o","g","l","e",".","c","o","m">>],
        [company |-> <<"M","e","t","a">>,  \* 'Meta'
         career_url |-> <<"h","t","t","p","s",":","/","/","w","w","w",".","m","e","t","a","c","a","r","e","e","r","s",".","c","o","m">>],
        [company |-> <<"A","p","p","l","e">>,  \* 'Apple'
         career_url |-> <<"h","t","t","p","s",":","/","/","j","o","b","s",".","a","p","p","l","e",".","c","o","m">>] >>],
    [category |-> <<"m","e","d","i","u","m","_","c","o","m","p","a","n","i","e","s">>, companies |-> <<
        [company |-> <<"D","a","t","a","b","r","i","c","k","s">>,  \* 'Databricks'
         career_url |-> <<"h","t","t","p","s",":","/","/","w","w","w",".","d","a","t","a","b","r","i","c","k","s",".","c","o","m","/","c","o","m","p","a","n","y","/","c","a","r","e","e","r","s">>],
        [company |-> <<"S","n","o","w","f","l","a","k","e">>,  \* 'Snowflake'
         career_url |-> <<"h","t","t","p","s",":","/","/","c","a","r","e","e","r","s",".","s","n","o","w","f","l","a","k","e",".","c","o","m">>],
        [company |-> <<"S","t","r","i","p","e">>,  \* 'Stripe'
         career_url |-> <<"h","t","t","p","s",":","/","/","s","t","r","i","p","e",".","c","o","m","/","j","o","b","s">>],
        [company |-> <<"C","o","i","n","b","a","s","e">>,  \* 'Coinbase'
         career_url |-> <<"h","t","t","p","s",":","/","/","w","w","w",".","c","o","i","n","b","a","s","e",".","c","o","m","/","c","a","r","e","e","r","s">>],
        [company |-> <<"D","a","t","a","d","o","g">>,  \* 'Datadog'
         career_url |-> <<"h","t","t","p","s",":","/","/","w","w","w",".","d","a","t","a","d","o","g","h","q",".","c","o","m","/","c","a","r","e","e","r","s">>] >>],
    [category |-> <<"s","m","a","l","l","e","r","_","c","o","m","p","a","n","i","e","s">>, companies |-> <<
        [company |-> <<"H","a","s","h","i","C","o","r","p">>,  \* 'HashiCorp'
         career_url |-> <<"h","t","t","p","s",":","/","/","w","w","w",".","h","a","s","h","i","c","o","r","p",".","c","o","m","/","c","a","r","e","e","r","s">>],
        [company |-> <<"G","i","t","L","a","b">>,  \* 'GitLab'
         career_url |-> <<"h","t","t","p","s",":","/","/","a","b","o","u","t",".","g","i","t","l","a","b",".","c","o","m","/","j","o","b","s">>],
        [company |-> <<"M","o","n","g","o","D","B">>,  \* 'MongoDB'
         career_url |-> <<"h","t","t","p","s",":","/","/","w","w","w",".","m","o","n","g","o","d","b",".","c","o","m","/","c","a","r","e","e","r","s">>],
        [company |-> <<"E","l","a","s","t","i","c">>,  \* 'Elastic'
         career_url |-> <<"h","t","t","p","s",":","/","/","w","w","w",".","e","l","a","s","t","i","c",".","c","o","/","c","a","r","e","e","r","s">>],
        [company |-> <<"C","o","n","f","l","u","e","n","t">>,  \* 'Confluent'
         career_url |-> <<"h","t","t","p","s",":","/","/","w","w","w",".","c","o","n","f","l","u","e","n","t",".","i","o","/","c","a","r","e","e","r","s">>] >>],
    [category |-> <<"c","o","n","s","u","l","t","i","n","g","_","f","i","r","m","s">>, companies |-> <<
        [company |-> <<"T","h","o","u","g","h","t","w","o","r","k","s">>,  \* 'Thoughtworks'
         career_url |-> <<"h","t","t","p","s",":","/","/","w","w","w",".","t","h","o","u","g","h","t","w","o","r","k","s",".","c","o","m","/","c","a","r","e","e","r","s">>],
        [company |-> <<"E","P","A","M"," ","S","y","s","t","e","m","s">>,  \* 'EPAM Systems'
         career_url |-> <<"h","t","t","p","s",":","/","/","w","w","w",".","e","p","a","m",".","c","o","m","/","c","a","r","e","e","r","s">>] >>] >>

\* the catalogs get_h1b_sponsors is called with: the first companies of each
\* category of sponsor_catalog, all of them included
Catalogs ==
    { [c \in DOMAIN sponsor_catalog |->
          [category |-> sponsor_catalog[c].category,
           companies |-> Prefix(sponsor_catalog[c].companies, cut[c])]] :
      cut \in [DOMAIN sponsor_catalog -> 0..5] }

IsLetter(c) == IsIn(c, UpperAlpha) \/ IsIn(c, LowerAlpha)

\* str.title(): a letter after a character that is no letter is made upper
\* case, every other letter lower case
title(text) ==
    [i \in 1..Len(text) |->
        IF i = 1 \/ ~ IsLetter(text[i - 1]) THEN upper_char(text[i])
        ELSE lower_char(text[i])]

\* the record of one company
sponsor_record(category, company_data) ==
    [company_name |-> company_data.company,
     category |-> title(replace(category, <<"_">>, <<" ">>)),
     career_website |-> company_data.career_url,
     current_openings |->
         <<"M","U","S","T"," ","C","H","E","C","K"," ","M","A","N","U","A","L","L","Y"," ","-"," ">> \o <<"V","i","s","i","t"," ","c","a","r","e","e","r"," ","w","e","b","s","i","t","e">>,
     has_devops_sre_jobs |->
         <<"U","N","K","N","O","W","N"," ","-"," ","M","u","s","t"," ","v","e","r","i","f","y"," ">> \o <<"o","n"," ","c","a","r","e","e","r"," ","s","i","t","e">>,
     action_required |->
         <<"V","i","s","i","t"," ">> \o company_data.career_url
         \o <<" ","a","n","d"," ","s","e","a","r","c","h"," ","f","o","r"," ">> \o <<"D","e","v","O","p","s","/","S","R","E","/","I","n","f","r","a","s","t","r","u","c","t","u","r","e"," ","r","o","l","e","s">>]

\* get_h1b_sponsors that walks the categories from the last to the first
RECURSIVE get_h1b_sponsors_last_first(_)
get_h1b_sponsors_last_first(categories) ==
    IF categories = <<>> THEN <<>>
    ELSE get_h1b_sponsors_last_first(Tail(categories))
         \o [k \in DOMAIN Head(categories).companies |->
                sponsor_record(Head(categories).category,
                               Head(categories).companies[k])]

\* HonestH1BFinder.get_h1b_sponsors
RECURSIVE get_h1b_sponsors(_)
get_h1b_sponsors(categories) ==
    IF categories = <<>> THEN <<>>
    ELSE [k \in DOMAIN Head(categories).companies |->
             sponsor_record(Head(categories).category,
                            Head(categories).companies[k])]
         \o get_h1b_sponsors(Tail(categories))

CallGetH1BSponsors ==
    /\ sponsors_pc = "start"
    /\ sponsors' = get_h1b_sponsors(catalog)
    /\ sponsors_pc' = "returned"
    /\ UNCHANGED <<catalog, outside_sponsors>>

InitSponsors ==
    /\ catalog \in Catalogs
    /\ sponsors = <<>>
    /\ sponsors_pc = "start"
    /\ OutsideSponsorsIdle

NextSponsors == CallGetH1BSponsors

SpecSponsors == InitSponsors /\ [][NextSponsors]_vars

\* ---------------------------------------------------------------------------
\* AlternativeH1BJobParser.search_rss_feeds of h1b_alternative_parser.py, entry
\* by entry
\* ---------------------------------------------------------------------------
\* the entries of all feeds together
MaxEntries == 2
\* feed.entries[:10]
EntryLimit == 10

\* what datetime.now() answers during the call
FetchTime == At(2024, 3, 1, 43200)

\* the attribute published_parsed of an entry: absent (has = FALSE), None
\* because the date could not be parsed (parsed = FALSE), or a time
NoPublished == [has |-> FALSE, parsed |-> FALSE, at |-> At(1, 1, 1, 0)]
UnparsedPublished == [has |-> TRUE, parsed |-> FALSE, at |-> At(1, 1, 1, 0)]
PublishedAt(y, m, d, s) == [has |-> TRUE, parsed |-> TRUE, at |-> At(y, m, d, s)]

\* published is <<>> when the entry lacks the attribute, else <<its text>>
Entry(entry_title, summary, link, published, published_parsed) ==
    [title |-> entry_title, summary |-> summary, link |-> link,
     published |-> published, published_parsed |-> published_parsed]

Entries == {
    Entry(<<"S","e","n","i","o","r"," ","D","e","v","O","p","s"," ","E","n","g","i","n","e","e","r">>, <<"H","1","B"," ","v","i","s","a"," ","s","p","o","n","s","o","r","s","h","i","p"," ","a","v","a","i","l","a","b","l","e">>,
          <<"h","t","t","p","s",":","/","/","w","w","w",".","i","n","d","e","e","d",".","c","o","m","/","r","c","/","c","l","k","?","j","k","=","1">>,  \* 'https://www.indeed.com/rc/clk?jk=1'
          << <<"F","r","i",","," ","0","1"," ","M","a","r"," ","2","0","2","4"," ","1","1",":","0","0",":","0","0"," ","G","M","T">> >>, PublishedAt(2024, 3, 1, 39600)),
    Entry(<<"S","R","E">>, <<"W","i","l","l"," ","s","p","o","n","s","o","r"," ","H","1","B">>,
          <<"h","t","t","p","s",":","/","/","w","w","w",".","i","n","d","e","e","d",".","c","o","m","/","r","c","/","c","l","k","?","j","k","=","2">>,  \* 'https://www.indeed.com/rc/clk?jk=2'
          << <<"T","u","e",","," ","2","7"," ","F","e","b"," ","2","0","2","4"," ","1","2",":","0","0",":","0","0"," ","G","M","T">> >>, PublishedAt(2024, 2, 27, 43200)),
    Entry(<<"P","l","a","t","f","o","r","m"," ","E","n","g","i","n","e","e","r">>, <<>>,
          <<"h","t","t","p","s",":","/","/","w","w","w",".","i","n","d","e","e","d",".","c","o","m","/","r","c","/","c","l","k","?","j","k","=","3">>, <<>>, NoPublished),
    Entry(<<"C","l","o","u","d"," ","E","n","g","i","n","e","e","r">>, <<"U","S"," ","c","i","t","i","z","e","n"," ","o","n","l","y">>,
          <<"h","t","t","p","s",":","/","/","w","w","w",".","i","n","d","e","e","d",".","c","o","m","/","r","c","/","c","l","k","?","j","k","=","4">>,  \* 'https://www.indeed.com/rc/clk?jk=4'
          << <<"T","h","u",","," ","2","9"," ","F","e","b"," ","2","0","2","4"," ","1","2",":","0","0",":","0","0"," ","G","M","T">> >>, PublishedAt(2024, 2, 29, 43200)),
    Entry(<<"D","e","v","O","p","s"," ","L","e","a","d">>, <<>>,
          <<"h","t","t","p","s",":","/","/","w","w","w",".","i","n","d","e","e","d",".","c","o","m","/","r","c","/","c","l","k","?","j","k","=","5">>,  \* 'https://www.indeed.com/rc/clk?jk=5'
          << <<"T","h","u",","," ","2","9"," ","F","e","b"," ","2","0","2","4"," ","1","1",":","5","9",":","5","9"," ","G","M","T">> >>, PublishedAt(2024, 2, 29, 43199)),
    Entry(<<"S","y","s","t","e","m","s"," ","E","n","g","i","n","e","e","r">>, <<>>,
          <<"h","t","t","p","s",":","/","/","w","w","w",".","i","n","d","e","e","d",".","c","o","m","/","r","c","/","c","l","k","?","j","k","=","6">>, << <<"y","e","s","t","e","r","d","a","y">> >>, UnparsedPublished),
    Entry(<<"A","c","c","o","u","n","t","a","n","t">>, <<"L","e","d","g","e","r","s">>,
          <<"h","t","t","p","s",":","/","/","w","w","w",".","i","n","d","e","e","d",".","c","o","m","/","r","c","/","c","l","k","?","j","k","=","7">>,  \* 'https://www.indeed.com/rc/clk?jk=7'
          << <<"F","r","i",","," ","0","1"," ","M","a","r"," ","2","0","2","4"," ","1","1",":","0","0",":","0","0"," ","G","M","T">> >>, PublishedAt(2024, 3, 1, 39600)) }

RECURSIVE EntryLists(_)
EntryLists(n) ==
    IF n = 0 THEN { <<>> }
    ELSE EntryLists(n - 1)
         \cup { Append(entries, e) : entries \in EntryLists(n - 1),
                                     e \in Entries }

\* the entries of the feed of url i, the entries being dealt to the feeds by
\* feed_of
FeedEntries(entries, feed_of, i) ==
    LET Dealt(k) == feed_of[k] = i
        RECURSIVE Pick(_)
        Pick(k) == IF k > Len(entries) THEN <<>>
                   ELSE (IF Dealt(k) THEN <<entries[k]>> ELSE <<>>) \o Pick(k + 1)
    IN  Pick(1)

\* datetime - datetime, as timedelta keeps it: days, and seconds within the
\* day
datetime_sub(later, earlier) ==
    LET days == toordinal(later) - toordinal(earlier)
        seconds == later.second - earlier.second
    IN  IF seconds < 0 THEN [days |-> days - 1, seconds |-> seconds + 86400]
        ELSE [days |-> days, seconds |-> seconds]

\* datetime.now() - pub_date > timedelta(hours=24)
older_than_24_hours(now, pub_date) ==
    ~ total_seconds_le(datetime_sub(now, pub_date), 24 * 3600)

\* the jobs the entries of one feed add, up to the entry that raises
RECURSIVE feed_jobs(_, _)
feed_jobs(entries, now) ==
    IF entries = <<>> THEN <<>>
    ELSE LET e == Head(entries)
             found == ScrapedJob(e.title, e.summary, e.link,
                                 IF e.published # <<>> THEN e.published[1]
                                 ELSE <<"U","n","k","n","o","w","n">>)
         IN  IF e.published_parsed.has /\ ~ e.published_parsed.parsed
             THEN <<>>
             ELSE IF /\ e.published_parsed.has
                     /\ older_than_24_hours(now, e.published_parsed.at)
             THEN feed_jobs(Tail(entries), now)
             ELSE IF alt_is_target_role(found.title, found.description)
             THEN << update(found, alt_check_h1b_sponsorship(found.description)) >>
                  \o feed_jobs(Tail(entries), now)
             ELSE feed_jobs(Tail(entries), now)

\* one turn of "for rss_url in rss_urls"
FetchFeed ==
    /\ rss_pc = "fetch"
    /\ rss_index <= Len(rss_urls)
    /\ rss_jobs' = rss_jobs
           \o feed_jobs(Prefix(rss_feeds[rss_index], EntryLimit), FetchTime)
    /\ rss_index' = rss_index + 1
    /\ UNCHANGED <<rss_feeds, rss_pc, outside_rss>>

\* return jobs
ReturnRssJobs ==
    /\ rss_pc = "fetch"
    /\ rss_index > Len(rss_urls)
    /\ rss_pc' = "returned"
    /\ UNCHANGED <<rss_feeds, rss_index, rss_jobs, outside_rss>>

InitRss ==
    /\ \E entries \in EntryLists(MaxEntries) :
         \E feed_of \in [1..Len(entries) -> 1..Len(rss_urls)] :
            /\ \A k \in 1..(Len(entries) - 1) : feed_of[k] <= feed_of[k + 1]
            /\ rss_feeds = [i \in 1..Len(rss_urls) |->
                               FeedEntries(entries, feed_of, i)]
    /\ rss_index = 1
    /\ rss_jobs = <<>>
    /\ rss_pc = "fetch"
    /\ OutsideRssIdle

NextRss == FetchFeed \/ ReturnRssJobs

SpecRss == InitRss /\ [][NextRss]_vars

\* ---------------------------------------------------------------------------
\* MyVisaJobsScraper.create_job_entries, get_company_size_advantage and
\* generate_report of myvisajobs_scraper.py: the company sizes
\* ---------------------------------------------------------------------------
MaxEmployers == 2

\* the texts of the column of H1B counts
H1BCounts == { <<"4",",","9","7","0">>, <<"1",",","0","0","1">>, <<"1",",","0","0","0">>, <<"1","0","0","0">>, <<"9","9","9">>, <<"1","0","1">>, <<"1","0","0">>,
               <<"9","9">>,  \* '99'
               <<"2","1">>,  \* '21'
               <<"2","0">>,  \* '20'
               <<"0">>,
               <<>>,
               <<"N","/","A">>,  \* 'N/A'
               <<" ","1",",","0","0","0"," ">>,  \* ' 1,000 '
               <<"-","5">>,  \* '-5'
               <<"1","0","0","+">>,  \* '100+'
               <<"1","_","0","0","0">> }  \* '1_000'

RECURSIVE H1BCountLists(_)
H1BCountLists(n) ==
    IF n = 0 THEN { <<>> }
    ELSE H1BCountLists(n - 1)
         \cup { Append(counts, c) : counts \in H1BCountLists(n - 1),
                                    c \in H1BCounts }

\* h1b_count.replace(',', '').strip()
clean_count(h1b_count) == strip(replace(h1b_count, <<",">>, <<>>))

\* the job create_job_entries makes of the employer at place i
job_entry(i, h1b_count) ==
    [employer |-> i,
     h1b_applications |-> h1b_count,
     size_advantage |-> get_company_size_advantage(h1b_count)]

\* the bucket generate_report puts a job in
bucket(job) ==
    IF ~ int_accepts(clean_count(job.h1b_applications)) THEN "medium"
    ELSE LET n == int_value(clean_count(job.h1b_applications)) IN
         IF n > 1000 THEN "large"
         ELSE IF n > 100 THEN "medium"
         ELSE "small"

\* a bucket of generate_report after its loop
bucket_of(found, name) == SelectSeq(found, LAMBDA job : bucket(job) = name)

CreateJobEntries ==
    /\ report_pc = "start"
    /\ report_jobs' = [i \in DOMAIN report_employers |->
                          job_entry(i, report_employers[i])]
    /\ report_pc' = "created"
    /\ UNCHANGED <<report_employers, large_companies, medium_companies,
                   small_companies, outside_report>>

GenerateReport ==
    /\ report_pc = "created"
    /\ large_companies' = bucket_of(report_jobs, "large")
    /\ medium_companies' = bucket_of(report_jobs, "medium")
    /\ small_companies' = bucket_of(report_jobs, "small")
    /\ report_pc' = "reported"
    /\ UNCHANGED <<report_employers, report_jobs, outside_report>>

InitReport ==
    /\ report_employers \in H1BCountLists(MaxEmployers)
    /\ report_jobs = <<>>
    /\ large_companies = <<>>
    /\ medium_companies = <<>>
    /\ small_companies = <<>>
    /\ report_pc = "start"
    /\ OutsideReportIdle

NextReport == CreateJobEntries \/ GenerateReport

SpecReport == InitReport /\ [][NextReport]_vars

\* ---------------------------------------------------------------------------
\* SimpleH1BJobParser.search_company_jobs and main of
\* simple_working_h1b_parser.py, element by element
\* ---------------------------------------------------------------------------
\* the elements of a career page that find_all gives
MaxElements == 6
\* job_elements[:5]
ElementLimit == 5

\* SimpleH1BJobParser.h1b_companies: the url of each company
company_urls == <<
    <<"h","t","t","p","s",":","/","/","c","a","r","e","e","r","s",".","g","o","o","g","l","e",".","c","o","m","/","j","o","b","s","/","r","e","s","u","l","t","s","/">>,  \* 'https://careers.google.com/jobs/results/'
    <<"h","t","t","p","s",":","/","/","c","a","r","e","e","r","s",".","m","i","c","r","o","s","o","f","t",".","c","o","m","/","u","s","/","e","n","/","s","e","a","r","c","h","-","r","e","s","u","l","t","s">>,  \* 'https://careers.microsoft.com/us/en/search-results'
    <<"h","t","t","p","s",":","/","/","a","m","a","z","o","n",".","j","o","b","s","/","e","n","/","s","e","a","r","c","h">>,  \* 'https://amazon.jobs/en/search'
    <<"h","t","t","p","s",":","/","/","w","w","w",".","m","e","t","a","c","a","r","e","e","r","s",".","c","o","m","/","j","o","b","s","/">>,  \* 'https://www.metacareers.com/jobs/'
    <<"h","t","t","p","s",":","/","/","j","o","b","s",".","n","e","t","f","l","i","x",".","c","o","m","/","s","e","a","r","c","h">> >>  \* 'https://jobs.netflix.com/search'

\* an element find_all gives: href is <<>> when it holds no <a href>, else
\* <<the href>>; raises: reading the element raises
Element(element_text, href, raises) ==
    [text |-> element_text, href |-> href, raises |-> raises]

Elements == {
    Element(<<" ","S","e","n","i","o","r"," ","D","e","v","O","p","s"," ","E","n","g","i","n","e","e","r"," ">>, << <<"/","j","o","b","s","/","2">> >>, FALSE),
    Element(<<"A","c","c","o","u","n","t","a","n","t">>, << <<"h","t","t","p","s",":","/","/","e","x","a","m","p","l","e",".","c","o","m","/","j","o","b","/","4">> >>, FALSE),
    Element(<<"S","R","E">>, <<>>, TRUE) }

RECURSIVE ElementLists(_)
ElementLists(n) ==
    IF n = 0 THEN { <<>> }
    ELSE ElementLists(n - 1)
         \cup { Append(found, e) : found \in ElementLists(n - 1),
                                   e \in Elements }

\* what session.get answers: it raises, or a response with a status and the
\* elements of its page
CareerAnswer(raises, status_code, job_elements) ==
    [raises |-> raises, status_code |-> status_code,
     job_elements |-> job_elements]

CareerAnswers ==
    { CareerAnswer(TRUE, 0, <<>>), CareerAnswer(FALSE, 403, <<>>),
      CareerAnswer(FALSE, 500, <<>>) }
    \cup { CareerAnswer(FALSE, 200, found) : found \in ElementLists(MaxElements) }

\* the record of a lead, as far as main counts it
CareerLead(lead_title, company, url, source) ==
    [title |-> lead_title, company |-> company, url |-> url, source |-> source]

\* SimpleH1BJobParser.create_manual_verification_jobs
manual_jobs(c) ==
    [r \in DOMAIN Prefix(common_roles, 2) |->
        CareerLead(common_roles[r] \o <<" ","-"," ">> \o h1b_companies[c],
                   h1b_companies[c], company_urls[c], "Manual Verification")]

\* the job search_company_jobs makes of a matching element
element_job(c, element) ==
    LET href == IF element.href = <<>> THEN <<>> ELSE element.href[1]
        job_url == IF startswith(href, <<"h","t","t","p">>) THEN href
                   ELSE IF startswith(href, <<"/">>)
                   THEN <<"h","t","t","p","s",":","/","/">> \o lower(h1b_companies[c]) \o <<".","c","o","m">> \o href
                   ELSE <<>>
    IN  CareerLead(Prefix(strip(element.text), 100), h1b_companies[c],
                   IF job_url # <<>> THEN job_url ELSE company_urls[c],
                   "Careers")

\* the loop over job_elements[:5]: the jobs found
found_jobs(c, job_elements) ==
    LET Matches(element) ==
            AnyIn(target_keywords, lower(strip(element.text)))
        matching == SelectSeq(job_elements, Matches)
    IN  [k \in DOMAIN matching |-> element_job(c, matching[k])]

\* search_company_jobs without "if found_jobs == 0"
search_company_jobs_found_only(c, answer) ==
    IF answer.raises \/ answer.status_code # 200 THEN manual_jobs(c)
    ELSE LET job_elements == Prefix(answer.job_elements, ElementLimit) IN
         IF \E k \in DOMAIN job_elements : job_elements[k].raises
         THEN manual_jobs(c)
         ELSE found_jobs(c, job_elements)

\* SimpleH1BJobParser.search_company_jobs
search_company_jobs(c, answer) ==
    IF answer.raises \/ answer.status_code # 200 THEN manual_jobs(c)
    ELSE LET job_elements == Prefix(answer.job_elements, ElementLimit) IN
         IF \E k \in DOMAIN job_elements : job_elements[k].raises
         THEN manual_jobs(c)
         ELSE IF found_jobs(c, job_elements) = <<>> THEN manual_jobs(c)
         ELSE found_jobs(c, job_elements)

\* SimpleH1BJobParser.search_h1b_database_companies
database_jobs ==
    [k \in DOMAIN Prefix(additional_companies, 5) |->
        CareerLead(<<"D","e","v","O","p","s","/","S","R","E"," ","O","p","p","o","r","t","u","n","i","t","i","e","s"," ","-"," ">> \o additional_companies[k],
                   additional_companies[k],
                   <<"h","t","t","p","s",":","/","/">> \o lower(additional_companies[k]) \o <<".","c","o","m","/","c","a","r","e","e","r","s">>,
                   "H1B Database")]

\* SimpleH1BJobParser.get_manual_search_guide
guide_jobs ==
    << CareerLead(<<"M","A","N","U","A","L"," ","H","1","B"," ","J","O","B"," ","S","E","A","R","C","H"," ","G","U","I","D","E">>, <<"M","u","l","t","i","p","l","e"," ","C","o","m","p","a","n","i","e","s">>,
                  <<"h","t","t","p","s",":","/","/","m","y","v","i","s","a","j","o","b","s",".","c","o","m","/","h","1","b","/","s","e","a","r","c","h",".","a","s","p","x","?","j","o","b","=","D","e","v","O","p","s","+","E","n","g","i","n","e","e","r">>,  \* 'https://myvisajobs.com/h1b/search.aspx?job=DevOps+Engineer'
                  "Manual Search Guide") >>

\* what the career page of company c answers
AnswerAt(c) ==
    IF c <= open_sites THEN career_page ELSE CareerAnswer(FALSE, 403, <<>>)

\* one turn of "for company, company_info in parser.h1b_companies.items()"
SearchCompany ==
    /\ careers_pc = "searching"
    /\ company_at <= Len(h1b_companies)
    /\ company_jobs' = search_company_jobs(company_at, AnswerAt(company_at))
    /\ leads' = leads \o company_jobs'
    /\ company_at' = company_at + 1
    /\ UNCHANGED <<career_page, open_sites, careers_pc, outside_careers>>

\* methods 2 and 3 of main
DatabaseAndGuide ==
    /\ careers_pc = "searching"
    /\ company_at > Len(h1b_companies)
    /\ leads' = leads \o database_jobs \o guide_jobs
    /\ careers_pc' = "collected"
    /\ UNCHANGED <<career_page, open_sites, company_at, company_jobs,
                   outside_careers>>

\* "if all_jobs:" of main
ReportLeads ==
    /\ careers_pc = "collected"
    /\ careers_pc' = IF leads # <<>> THEN "saved" ELSE "no_leads"
    /\ UNCHANGED <<career_page, open_sites, company_at, company_jobs, leads,
                   outside_careers>>

InitCareers ==
    /\ career_page \in CareerAnswers
    /\ open_sites \in 0..Len(h1b_companies)
    /\ company_at = 1
    /\ company_jobs = <<>>
    /\ leads = <<>>
    /\ careers_pc = "searching"
    /\ OutsideCareersIdle

NextCareers == SearchCompany \/ DatabaseAndGuide \/ ReportLeads

SpecCareers == InitCareers /\ [][NextCareers]_vars
Init == InitClassifier \/ InitRecency \/ InitRecords \/ InitSave \/
        InitPages \/ InitEmployers \/ InitMain \/ InitCalls \/ InitDedup \/
        InitCards \/ InitSponsors \/ InitRss \/ InitReport \/ InitCareers
Next == NextClassifier \/ NextRecencyAgain \/ NextRecords \/ NextSave \/
        NextPages \/ NextEmployers \/ NextMain \/ NextCalls \/ NextDedup \/
        NextCards \/ NextSponsors \/ NextRss \/ NextReport \/ NextCareers
Spec == Init /\ [][Next]_vars


---------------------------------------------------------------------------
(* Properties of the classifier, under SpecClassifier *)

Classified == cls_pc \in {"H1BJobParser", "AlternativeH1BJobParser"}

\* the no-sponsorship list and the positive list of the class that answered
NegativeList == IF cls_pc = "H1BJobParser" THEN no_sponsorship_keywords
                ELSE alt_no_sponsorship_keywords
PositiveList == IF cls_pc = "H1BJobParser" THEN h1b_keywords ELSE alt_h1b_keywords

IsAscii(text) == \A i \in DOMAIN text : text[i] # DotlessI

\* C1: a text that contains a phrase of the class's no-sponsorship list is
\* answered sponsors_h1b=False, confidence 'high', keywords_found=[], whatever
\* positive keywords it also contains.
C1_NoSponsorshipShortCircuits ==
    (Classified /\ AnyIn(NegativeList, lower(job_description)))
        => /\ h1b_info.sponsors_h1b = "False"
           /\ h1b_info.confidence = "high"
           /\ h1b_info.keywords_found = <<>>

\* a no-sponsorship phrase and a strong positive keyword in one text, classified
C1_Witness ==
    /\ Classified
    /\ AnyIn(NegativeList, lower(job_description))
    /\ \E i \in DOMAIN high_confidence_keywords :
          /\ In(high_confidence_keywords[i], lower(job_description))
          /\ ~ \E n \in DOMAIN NegativeList :
                 In(high_confidence_keywords[i], NegativeList[n])
    /\ h1b_info.sponsors_h1b = "False"

\* the keywords the claims name
StrongKeywords == <<
    <<"h","1","b">>,  \* 'h1b'
    <<"h","-","1","b">>,  \* 'h-1b'
    <<"v","i","s","a"," ","s","p","o","n","s","o","r","s","h","i","p">>,  \* 'visa sponsorship'
    <<"s","p","o","n","s","o","r"," ","v","i","s","a">> >>  \* 'sponsor visa'
NamedNegativePhrases == <<
    <<"n","o"," ","s","p","o","n","s","o","r","s","h","i","p">>,  \* 'no sponsorship'
    <<"u","s"," ","c","i","t","i","z","e","n">>,  \* 'us citizen'
    <<"g","r","e","e","n"," ","c","a","r","d"," ","r","e","q","u","i","r","e","d">> >>  \* 'green card required'

\* C2: with no no-sponsorship phrase and at least one positive keyword,
\* H1BJobParser answers sponsors_h1b=True, with confidence 'high' exactly when
\* one of 'h1b', 'h-1b', 'visa sponsorship', 'sponsor visa' occurs in the text
\* and 'medium' otherwise.
C2_PositiveAndConfidence ==
    LET text == lower(job_description) IN
    (/\ cls_pc = "H1BJobParser"
     /\ ~ AnyIn(no_sponsorship_keywords, text)
     /\ AnyIn(h1b_keywords, text))
        => /\ h1b_info.sponsors_h1b = "True"
           /\ h1b_info.confidence =
                 IF AnyIn(StrongKeywords, text) THEN "high" ELSE "medium"

\* only weaker keywords ('opt' among them) in the text: medium confidence
C2_Witness ==
    /\ cls_pc = "H1BJobParser"
    /\ In(<<"o","p","t">>, lower(job_description))
    /\ h1b_info.sponsors_h1b = "True"
    /\ h1b_info.confidence = "medium"
    /\ Len(h1b_info.keywords_found) >= 2

\* C3: a text with neither a no-sponsorship phrase nor a positive keyword, the
\* empty text included, is answered sponsors_h1b=None, confidence 'unknown',
\* keywords_found=[].
C3_NothingMatchesIsUnknown ==
    LET text == lower(job_description) IN
    (Classified /\ ~ AnyIn(NegativeList, text) /\ ~ AnyIn(PositiveList, text))
        => /\ h1b_info.sponsors_h1b = "None"
           /\ h1b_info.confidence = "unknown"
           /\ h1b_info.keywords_found = <<>>

\* a text of some length in which nothing matches, classified
C3_Witness ==
    /\ Classified
    /\ Len(job_description) > 2
    /\ ~ AnyIn(NegativeList, lower(job_description))
    /\ ~ AnyIn(PositiveList, lower(job_description))
    /\ h1b_info.sponsors_h1b = "None"

NotAvailable == <<"s","p","o","n","s","o","r","s","h","i","p"," ","i","s"," ","n","o","t"," ","a","v","a","i","l","a","b","l","e">>  \* 'sponsorship is not available'

\* C4, as stated: the text 'sponsorship is not available' is classified as
\* positive.
C4_NotAvailableIsPositive ==
    (Classified /\ lower(job_description) = NotAvailable)
        => h1b_info.sponsors_h1b = "True"

\* C4, amended: the text 'sponsorship is not available' is classified as
\* unknown (sponsors_h1b=None, confidence 'unknown'); it is the text
\* 'visa sponsorship is not available' that is classified as positive.
C4_NotAvailableIsUnknown ==
    /\ (Classified /\ lower(job_description) = NotAvailable)
          => h1b_info = [sponsors_h1b |-> "None", confidence |-> "unknown",
                         keywords_found |-> <<>>]
    /\ (Classified /\ lower(job_description) = <<"v","i","s","a"," ">> \o NotAvailable)
          => h1b_info.sponsors_h1b = "True" /\ h1b_info.confidence = "high"

\* the phrase, in capitals, classified by H1BJobParser
C4_Witness ==
    /\ cls_pc = "H1BJobParser"
    /\ job_description = upper(NotAvailable)
    /\ h1b_info.sponsors_h1b = "None"

\* C5: in both classes, a text that contains 'no sponsorship', 'us citizen' or
\* 'green card required' is answered sponsors_h1b=False with confidence 'high'.
C5_NamedPhrasesAreNegative ==
    (Classified /\ AnyIn(NamedNegativePhrases, lower(job_description)))
        => h1b_info.sponsors_h1b = "False" /\ h1b_info.confidence = "high"

\* the description with its letters changed to another case
CaseVariants(text) == {Recase(mode, text) : mode \in CaseModes}

\* C6, as stated: the answer for a text equals the answer for the same text
\* with its letters changed between upper and lower case.
C6_CaseInsensitive ==
    /\ cls_pc = "H1BJobParser" =>
          \A v \in CaseVariants(job_description) : check_h1b_sponsorship(v) = h1b_info
    /\ cls_pc = "AlternativeH1BJobParser" =>
          \A v \in CaseVariants(job_description) : alt_check_h1b_sponsorship(v) = h1b_info

\* C6, amended: for a text of ASCII characters, the answer equals the answer
\* for the same text with its letters changed between upper and lower case.
C6_CaseInsensitiveAscii ==
    IsAscii(job_description) => C6_CaseInsensitive

\* a text in mixed case with a keyword in it, classified
C6_Witness ==
    /\ cls_pc = "H1BJobParser"
    /\ IsAscii(job_description)
    /\ job_description # lower(job_description)
    /\ job_description # upper(job_description)
    /\ h1b_info.sponsors_h1b = "True"

---------------------------------------------------------------------------
(* Properties of the recency filter, under SpecRecency *)

\* the text as the rules see it
Normalized == strip(lower(posting_date_text))

\* C7: 'N hours ago', and 'N hour ago' in the singular, is answered True
\* exactly when N <= 24.
C7_HoursAgoIffAtMost24 ==
    date_pc = "done" =>
        \A n \in 0..MaxN :
            posting_date_text \in {HoursAgo(n), HourAgo(n)}
                => (within_24_hours <=> n <= 24)

\* C8: 'N days ago' is answered True exactly when N <= 1.
C8_DaysAgoIffAtMost1 ==
    date_pc = "done" =>
        \A n \in 0..MaxN :
            posting_date_text = DaysAgo(n) => (within_24_hours <=> n <= 1)

\* the date an absolute date pattern reads in the text, in the current year
\* when the pattern has no year; NoDate when no pattern parses
ParsedDate ==
    IF posting_date_text \in {<<>>, <<"U","n","k","n","o","w","n">>} THEN NoDate
    ELSE LET parsed_date == parse_first(Normalized, 1) IN
         IF parsed_date = NoDate THEN NoDate
         ELSE with_current_year(parsed_date, current_time)

\* no more than 24 hours from the midnight of date have passed at now
InLast24Hours(date, now) ==
    \/ toordinal(now) = toordinal(date)
    \/ toordinal(now) = toordinal(date) + 1 /\ now.second = 0

\* C9: a text parsed by an absolute date pattern is answered True exactly when
\* the date lies within the 24 hours before the current time; an older date
\* and a date in the future are answered False.
C9_AbsoluteDateWithinLast24Hours ==
    (date_pc = "done" /\ ParsedDate # NoDate)
        => (within_24_hours <=> InLast24Hours(ParsedDate, current_time))

LiteralPhrases == <<
    <<"t","o","d","a","y">>,  \* 'today'
    <<"j","u","s","t"," ","p","o","s","t","e","d">>,  \* 'just posted'
    <<"0"," ","d","a","y","s"," ","a","g","o">>,  \* '0 days ago'
    <<"1"," ","d","a","y"," ","a","g","o">>,  \* '1 day ago'
    <<"y","e","s","t","e","r","d","a","y">>,  \* 'yesterday'
    <<"2","4"," ","h","o","u","r","s"," ","a","g","o">> >>  \* '24 hours ago'

\* a text the rules cannot interpret: empty, 'Unknown', or one with no literal
\* phrase, no number of hours or days before 'ago' and no absolute date
Uninterpretable ==
    \/ posting_date_text \in {<<>>, <<"U","n","k","n","o","w","n">>}  \* 'Unknown'
    \/ /\ ~ AnyIn(LiteralPhrases, Normalized)
       /\ re_search_number(Normalized, <<"h","o","u","r">>) = NoMatch
       /\ re_search_number(Normalized, <<"d","a","y">>) = NoMatch
       /\ parse_first(Normalized, 1) = NoDate

ReachesOlderRule ==
    /\ posting_date_text \notin {<<>>, <<"U","n","k","n","o","w","n">>}  \* 'Unknown'
    /\ ~ AnyIn(LiteralPhrases, Normalized)
    /\ ~ In(<<"h","o","u","r","s"," ","a","g","o">>, Normalized)
    /\ ~ In(<<"d","a","y","s"," ","a","g","o">>, Normalized)

\* C11: a text that matches none of the higher-priority rules and contains
\* 'week', 'month' or 'year' is answered False.
C11_WeekMonthYearIsFalse ==
    (date_pc = "done" /\ ReachesOlderRule /\ AnyIn(older_phrases, Normalized))
        => within_24_hours = FALSE

\* 'posted 2 months ago' has been answered
C11_Witness ==
    /\ date_pc = "done"
    /\ ReachesOlderRule
    /\ In(<<"m","o","n","t","h">>, Normalized)
    /\ In(<<"a","g","o">>, Normalized)
    /\ within_24_hours = FALSE

\* C12: two calls with the same text return the same result whatever the
\* current time is at each call.
C12_SameResultAtAnyTime ==
    date_pc = "again" => within_24_hours = earlier_result

\* C12, amended: two calls with the same text return the same result at any
\* two times unless the text is read as an absolute date, which is compared
\* with datetime.now().
C12_SameResultUnlessAbsoluteDate ==
    (date_pc = "again" /\ parse_first(Normalized, 1) = NoDate)
        => within_24_hours = earlier_result

\* '3 hours ago' answered twice, the second time at the end of the year
C12_Witness ==
    /\ date_pc = "again"
    /\ posting_date_text = HoursAgo(3)
    /\ current_time = At(2024, 12, 31, 86399)
    /\ within_24_hours = TRUE
    /\ earlier_result = TRUE

---------------------------------------------------------------------------
(* The JobRecords *)

\* a record has been built
Built == rec_pc \notin {"idle", "start"}

\* every element of keywords_found occurs in the lower-cased description
KeywordsOccur ==
    \A i \in DOMAIN job_data.keywords_found :
        In(job_data.keywords_found[i], lower(job_data.description))

\* C13: in every JobRecord, sponsors_h1b is True, False or None, confidence
\* is 'high', 'medium' or 'unknown', and every element of keywords_found
\* occurs as a substring of the record's lower-cased description.
C13_ClassifierFieldsConsistent ==
    Built =>
        /\ job_data.sponsors_h1b \in {"True", "False", "None"}
        /\ job_data.confidence \in {"high", "medium", "unknown"}
        /\ KeywordsOccur

---------------------------------------------------------------------------
(* save_results *)

\* save_results has returned
Saved == save_pc \notin {"idle", "start"}

\* two lists of records with the same fields and the same values, in order
SameJobs(a, b) ==
    /\ Len(a) = Len(b)
    /\ \A i \in DOMAIN a :
          /\ Len(a[i]) = Len(b[i])
          /\ \A k \in DOMAIN a[i] :
                /\ a[i][k][1] = b[i][k][1]
                /\ SameValue(a[i][k][2], b[i][k][2])

\* C14: reading the written CSV file and the written JSON file back yields,
\* for each record, the identical fields and the identical values.
C14_RoundTrip ==
    (Saved /\ csv_file.exists /\ json_file.exists) =>
        /\ SameJobs(read_csv(csv_file), jobs)
        /\ SameJobs(read_json(json_file), jobs)

C16_EmptyListWritesNothing ==
    (Saved /\ jobs = <<>>) => (~ csv_file.exists /\ ~ json_file.exists)

---------------------------------------------------------------------------
(* The page loops *)

\* the answer to the i-th GET was HTTP 403
Answered403(i) ==
    gets[i].answer.kind = "response" /\ gets[i].answer.status = 403

\* the jobs of the pages requested before the i-th GET
RECURSIVE JobsBefore(_)
JobsBefore(i) ==
    IF i <= 1 THEN <<>>
    ELSE JobsBefore(i - 1) \o PageJobs(gets[i - 1].page, gets[i - 1].kept)

\* C17: once the request for page k is answered with HTTP 403 the loop is
\* over: it was the last request, and the jobs of the pages before k are the
\* jobs returned.
C17_Http403AbortsTheLoop ==
    \A i \in DOMAIN gets :
        Answered403(i) =>
            /\ i = Len(gets)
            /\ scrape_pc = "returned"
            /\ scraped = JobsBefore(i)

\* the second page of scrape_indeed was answered 403 after a page with jobs
C17_Witness ==
    /\ scraper = "scrape_indeed"
    /\ max_pages = 3
    /\ Len(gets) = 2
    /\ Answered403(2)
    /\ scrape_pc = "returned"
    /\ Len(scraped) = 2

\* C20: each page index is requested at most once and in turn, a failed
\* request is never issued again, and there are at most max_pages GETs.
C20_NoRetry ==
    /\ Len(gets) <= max_pages
    /\ \A i \in DOMAIN gets : gets[i].page = i - 1
    /\ \A i, j \in DOMAIN gets : gets[i].page = gets[j].page => i = j

\* search_ziprecruiter went on to its last page after two failed requests
C20_Witness ==
    /\ scraper = "search_ziprecruiter"
    /\ max_pages = 3
    /\ Len(gets) = 3
    /\ gets[1].answer = Response(500)
    /\ gets[2].answer = RequestException(FALSE)
    /\ gets[3].answer = Response(200)
    /\ scrape_pc = "returned"

\* C19: whenever the live lookup of search_h1b_employers fails or finds no
\* employers (an exception, a status other than 200, no table, or a table
\* that yields no employer), the method returns the fallback list filtered by
\* min_salary
LiveLookupFailed ==
    \/ site.kind # "response"
    \/ site.status # 200
    \/ site.tables = <<>>
LiveLookupEmpty ==
    /\ ~ LiveLookupFailed
    /\ table_employers(Prefix(Tail(site.tables[1]), RowLimit),
                       query.job_title, query.min_salary) = <<>>
C19_FallbackWhenNoLiveEmployers ==
    (emp_pc = "returned" /\ (LiveLookupFailed \/ LiveLookupEmpty))
        => employers = get_fallback_employer_list(query.job_title, query.min_salary)

\* C18: every script fails soft: when every request of the run has failed and
\* main has run to its end, the output holds at least the static fallback
\* dataset: records were written, and they are records of the data written
\* in the script.
C18_FailSoftStaticDataset ==
    (main_pc = "completed" /\ Failing(weather)) =>
        /\ written # <<>>
        /\ \A i \in DOMAIN written : written[i].from = "static"

\* C21: no HTTP GET and no feed fetch is issued without a sleep having been
\* executed immediately before it.
C21_SleepBeforeEveryGet ==
    \A i \in DOMAIN calls :
        calls[i] = "get" => (i > 1 /\ calls[i - 1] = "sleep")

(* The duplicate removal *)

\* the strictly increasing choices of Len(unique) places of collected
Places ==
    { f \in [DOMAIN unique -> DOMAIN collected] :
          \A i, j \in DOMAIN unique : i < j => f[i] < f[j] }

\* unique is collected at the places f
KeptAt(f) == \A k \in DOMAIN unique : unique[k] = collected[f[k]]

Dropped(f) == { i \in DOMAIN collected : \A k \in DOMAIN unique : f[k] # i }

\* C22: after the duplicate removal of h1b_job_parser.py no two records of
\* unique_jobs have the same url, unique_jobs is a subsequence of all_jobs in
\* the original order, and a record is dropped only if an earlier record of
\* all_jobs has the same url, the empty url being a url like any other.
C22_UniqueByUrlInOrder ==
    dedup_pc = "h1b_job_parser" =>
        /\ \A i, j \in DOMAIN unique : i < j => unique[i].url # unique[j].url
        /\ Len(unique) <= Len(collected)
        /\ \E f \in Places :
              /\ KeptAt(f)
              /\ \A i \in Dropped(f) :
                    \E j \in 1..(i - 1) : collected[j].url = collected[i].url

\* three jobs, the third with the empty url of the first: it was dropped
C22_Witness ==
    /\ dedup_pc = "h1b_job_parser"
    /\ Len(collected) = 3
    /\ collected[1].url = <<>>
    /\ collected[2].url # <<>>
    /\ collected[3].url = <<>>
    /\ collected[3] # collected[1]
    /\ unique = SubSeq(collected, 1, 2)

\* C27: in the duplicate removal of h1b_alternative_parser.py a job with a
\* url is dropped only if an earlier job has the same url, a job without a
\* url only if an earlier job without a url has the same title, company and
\* location; every other job is kept, in the original order.
C27_DroppedOnlyAsDuplicate ==
    dedup_pc = "h1b_alternative_parser" =>
        /\ Len(unique) <= Len(collected)
        /\ \E f \in Places :
              /\ KeptAt(f)
              /\ \A i \in Dropped(f) :
                    \E j \in 1..(i - 1) :
                        IF collected[i].url # <<>>
                        THEN collected[j].url = collected[i].url
                        ELSE /\ collected[j].url = <<>>
                             /\ collected[j].title = collected[i].title
                             /\ collected[j].company = collected[i].company
                             /\ collected[j].location = collected[i].location

\* the i-th GET failed: session.get raised, or raise_for_status did
RequestFailed(i) ==
    gets[i].answer.kind = "exception" \/ raise_for_status(gets[i].answer)

\* C25: in scrape_indeed a request failure on page k that is not a 403 (any
\* other exception or status) is skipped: the loop is not left, page k+1 is
\* still requested, and the jobs collected so far are kept.
C25_OtherFailureIsSkipped ==
    scraper = "scrape_indeed" =>
        \A i \in DOMAIN gets :
            (RequestFailed(i) /\ ~ Answered403(i)) =>
                /\ scraped = JobsBefore(Len(gets) + 1)
                /\ (scrape_pc = "returned" /\ i = Len(gets))
                       => gets[i].page + 1 >= max_pages

(* The job cards *)

\* what the page loop running appends for one card
AppendedFor(card) ==
    CASE card_source = "scrape_indeed" -> indeed_card_jobs(card, ScrapeTime)
      [] card_source = "search_ziprecruiter" ->
             alt_card_jobs(card, <<"h","t","t","p","s",":","/","/","w","w","w",".","z","i","p","r","e","c","r","u","i","t","e","r",".","c","o","m">>)
      [] OTHER -> alt_card_jobs(card, <<"h","t","t","p","s",":","/","/","w","w","w",".","d","i","c","e",".","c","o","m">>)

RECURSIVE JobsOf(_)
JobsOf(cards) ==
    IF cards = <<>> THEN <<>>
    ELSE AppendedFor(Head(cards)) \o JobsOf(Tail(cards))

\* extract_*_job_data returns None for the card
ExtractionFails(card) ==
    IF card_source = "scrape_indeed"
    THEN extract_indeed_job_data(card, ScrapeTime) = Rejected
    ELSE extract_alt_job_data(card, <<>>) = Rejected

\* C23: a card whose extraction returns None is dropped and nothing else
\* changes: the jobs collected are those of the other cards handled, and the
\* loop returns only when every card of every page has been handled.
C23_DroppedCardDoesNotStopTheLoop ==
    /\ loop_jobs = JobsOf(SelectSeq(handled, LAMBDA c : ~ ExtractionFails(c)))
    /\ cards_pc = "returned" => handled = site_cards

\* the first of three cards was rejected, the two after it gave their jobs
C23_Witness ==
    /\ cards_pc = "returned"
    /\ Len(site_cards) = 3
    /\ ExtractionFails(site_cards[1])
    /\ Len(loop_jobs) = 2

\* C29: every job scrape_indeed returns is a target role, was posted within
\* 24 hours at the time of the scrape (so its posting date is not 'Unknown'),
\* and carries the fields of check_h1b_sponsorship(description).
C29_ReturnedJobsAreRecentTargetRoles ==
    card_source = "scrape_indeed" =>
        \A i \in DOMAIN loop_jobs :
            LET job == loop_jobs[i]
                info == check_h1b_sponsorship(job.description)
            IN  /\ is_target_role(job.title, job.description)
                /\ is_within_24_hours(job.posting_date, ScrapeTime)
                /\ job.posting_date # <<"U","n","k","n","o","w","n">>  \* 'Unknown'
                /\ job.sponsors_h1b = info.sponsors_h1b
                /\ job.confidence = info.confidence
                /\ job.keywords_found = info.keywords_found

\* scrape_indeed returned a job from a site that also held an old posting
\* and a card without date
C29_Witness ==
    /\ card_source = "scrape_indeed"
    /\ cards_pc = "returned"
    /\ Len(loop_jobs) = 1
    /\ \E i, j \in DOMAIN site_cards :
          /\ site_cards[i].date = <<>>
          /\ site_cards[j].date = << <<"3","0","+"," ","d","a","y","s"," ","a","g","o">> >>  \* '30+ days ago'

(* The sponsor catalog *)

\* the companies of the categories before category c
RECURSIVE CompaniesBefore(_)
CompaniesBefore(c) ==
    IF c <= 1 THEN 0
    ELSE CompaniesBefore(c - 1) + Len(catalog[c - 1].companies)

\* C24: get_h1b_sponsors returns exactly one record per company of the
\* catalog, category by category in catalog order, and every record says
\* that current openings must be checked manually and that DevOps/SRE jobs
\* are unknown.
C24_OneRecordPerCompanyNoOpenJob ==
    sponsors_pc = "returned" =>
        /\ Len(sponsors) = CompaniesBefore(Len(catalog) + 1)
        /\ \A c \in DOMAIN catalog :
              \A k \in DOMAIN catalog[c].companies :
                  sponsors[CompaniesBefore(c) + k].company_name
                      = catalog[c].companies[k].company
        /\ \A i \in DOMAIN sponsors :
              /\ Prefix(sponsors[i].current_openings, 19)
                     = <<"M","U","S","T"," ","C","H","E","C","K"," ","M","A","N","U","A","L","L","Y">>  \* 'MUST CHECK MANUALLY'
              /\ Prefix(sponsors[i].has_devops_sre_jobs, 7) = <<"U","N","K","N","O","W","N">>  \* 'UNKNOWN'

\* the whole catalog of the script: 17 records, from Microsoft to EPAM Systems
C24_Witness ==
    /\ sponsors_pc = "returned"
    /\ catalog = sponsor_catalog
    /\ Len(sponsors) = 17
    /\ sponsors[1].company_name = <<"M","i","c","r","o","s","o","f","t">>  \* 'Microsoft'
    /\ sponsors[1].category = <<"L","a","r","g","e"," ","C","o","m","p","a","n","i","e","s">>  \* 'Large Companies'
    /\ sponsors[17].company_name = <<"E","P","A","M"," ","S","y","s","t","e","m","s">>  \* 'EPAM Systems'

(* The RSS feeds *)

\* the entries, of any feed, a job was made of
EntriesOf(job) ==
    { e \in Entries :
        /\ e.link = job.url
        /\ \E i \in DOMAIN rss_feeds : \E k \in DOMAIN rss_feeds[i] :
              rss_feeds[i][k] = e }

\* published at a known time, at most 24 hours before the fetch
PublishedWithin24Hours(e) ==
    /\ e.published_parsed.has
    /\ e.published_parsed.parsed
    /\ ~ older_than_24_hours(FetchTime, e.published_parsed.at)

\* C26: every job search_rss_feeds returns was published within the 24 hours
\* before the fetch; no entry older than that and no entry whose publication
\* time is unknown is among the returned jobs.
C26_RssJobsPublishedWithin24Hours ==
    rss_pc = "returned" =>
        \A j \in DOMAIN rss_jobs :
            \A e \in EntriesOf(rss_jobs[j]) : PublishedWithin24Hours(e)

(* The size buckets of the report *)

\* the job is in the list
InBucket(job, companies) == \E i \in DOMAIN companies : companies[i] = job

\* the H1B count of a job whose h1b_applications is a number
CountOf(job) == int_value(clean_count(job.h1b_applications))

\* the bucket whose printed label holds the count: "1000+", "100-1000", "<100"
LabelOf(n) == IF n >= 1000 THEN "large" ELSE IF n >= 100 THEN "medium" ELSE "small"

\* C28: generate_report puts every job in exactly one of the three size
\* buckets, and the bucket is the one whose printed label holds the count:
\* large for 1000 or more, medium for 100 to 1000, small below 100, so that a
\* count of exactly 100 is medium.
C28_BucketsMatchTheirLabels ==
    report_pc = "reported" =>
        /\ Len(large_companies) + Len(medium_companies) + Len(small_companies)
               = Len(report_jobs)
        /\ \A i \in DOMAIN report_jobs :
             LET job == report_jobs[i] IN
             /\ InBucket(job, large_companies) \/ InBucket(job, medium_companies)
                    \/ InBucket(job, small_companies)
             /\ int_accepts(clean_count(job.h1b_applications)) =>
                   /\ InBucket(job, large_companies) <=> LabelOf(CountOf(job)) = "large"
                   /\ InBucket(job, medium_companies) <=> LabelOf(CountOf(job)) = "medium"
                   /\ InBucket(job, small_companies) <=> LabelOf(CountOf(job)) = "small"

(* The career pages *)

\* C30: search_company_jobs never returns an empty list: whatever the career
\* page answers it returns between 1 and 5 records; so main of
\* simple_working_h1b_parser.py collects between 11 and 31 leads and never
\* takes its 'No job leads generated' branch.
C30_CompanySearchNeverEmpty ==
    /\ company_at > 1 => Len(company_jobs) \in 1..5
    /\ careers_pc \in {"collected", "saved", "no_leads"} => Len(leads) \in 11..31
    /\ careers_pc # "no_leads"

\* main has saved the leads of three pages with six matching elements, five
\* records each, and of two companies that answer 403, two records each
C30_Witness ==
    /\ careers_pc = "saved"
    /\ open_sites = 3
    /\ career_page.status_code = 200
    /\ Len(career_page.job_elements) = 6
    /\ \A k \in 1..6 : ~ career_page.job_elements[k].raises
    /\ Len(company_jobs) = 2
    /\ Len(leads) = 25
=============================================================================
